---- MODULE Spec2Model ----
(***************************************************************************)
(* NarumateAI: the chat orchestrator (ChatInterface), the conversation     *)
(* sidebar, the conversation/message store adapter (lib/supabase), the     *)
(* inference client's routing and fallback (lib/huggingface) and the       *)
(* streak computation of the mood dashboard.                               *)
(*                                                                         *)
(* Text is a sequence of one-character strings, so that length, substring, *)
(* trim and lower-casing are computed as the code computes them.  The      *)
(* canned responses of generateFallbackResponse are kept by their first    *)
(* sixteen characters.  The id and timestamp fields of the in-memory       *)
(* Message objects are used for rendering only and are left out.           *)
(***************************************************************************)
EXTENDS Integers, Sequences, FiniteSets, TLC

(***************************************************************************)
(* Bounds of the model.                                                    *)
(***************************************************************************)
MaxClock == 3          \* writes to the persistence tier, each one tick of the clock
MaxMessages == 3       \* in-memory messages when a turn or a mood submission starts
MaxConvs == 3          \* conversation rows ever created (ids 1..MaxConvs)
MaxInFlight == 2       \* handler calls awaiting the persistence or inference tier
MaxContentLen == 80    \* longest message content fed to the title rule
MaxEntries == 4        \* mood entries held by the dashboard
MaxDaysBack == 4       \* oldest entry date, in days before today
MaxStatEntries == 4    \* mood entries in the table the statistics are read from

(***************************************************************************)
(* String primitives.                                                      *)
(***************************************************************************)
UpperToLower ==
  [A |-> "a", B |-> "b", C |-> "c", D |-> "d", E |-> "e", F |-> "f",
   G |-> "g", H |-> "h", I |-> "i", J |-> "j", K |-> "k", L |-> "l",
   M |-> "m", N |-> "n", O |-> "o", P |-> "p", Q |-> "q", R |-> "r",
   S |-> "s", T |-> "t", U |-> "u", V |-> "v", W |-> "w", X |-> "x",
   Y |-> "y", Z |-> "z"]

\* String.prototype.toLowerCase
toLowerCase(s) ==
  [i \in 1..Len(s) |-> IF s[i] \in DOMAIN UpperToLower THEN UpperToLower[s[i]] ELSE s[i]]

\* String.prototype.includes
includes(s, k) ==
  \E i \in 0..(Len(s) - Len(k)) : SubSeq(s, i + 1, i + Len(k)) = k

WhiteSpace == {" ", "\t", "\n", "\r"}

\* String.prototype.trim
trim(s) ==
  LET keep == {i \in 1..Len(s) : s[i] \notin WhiteSpace}
  IN  IF keep = {} THEN <<>>
      ELSE SubSeq(s, CHOOSE i \in keep : \A j \in keep : i <= j,
                     CHOOSE i \in keep : \A j \in keep : j <= i)

\* String.prototype.substring(0, n)
substring0(s, n) == SubSeq(s, 1, IF n < Len(s) THEN n ELSE Len(s))

NewConversationTitle == <<"N","e","w"," ","C","o","n","v","e","r","s","a","t","i","o","n">>
Ellipsis == <<".",".",".">>
KwFeel == <<"f","e","e","l">>
KwMood == <<"m","o","o","d">>
KwEmotion == <<"e","m","o","t","i","o","n">>
KwStory == <<"s","t","o","r","y">>
KwScript == <<"s","c","r","i","p","t">>
KwNarrat == <<"n","a","r","r","a","t">>
KwNarrative == <<"n","a","r","r","a","t","i","v","e">>
KwPlot == <<"p","l","o","t">>
KwVoice == <<"v","o","i","c","e">>
KwNarration == <<"n","a","r","r","a","t","i","o","n">>
KwContent == <<"c","o","n","t","e","n","t">>
KwCreate == <<"c","r","e","a","t","e">>
KwWrite == <<"w","r","i","t","e">>
KwHelp == <<"h","e","l","p">>
KwHow == <<"h","o","w">>
KwWhat == <<"w","h","a","t">>

(***************************************************************************)
(* Title derivation (saveMessageToDb).                                     *)
(***************************************************************************)
TitleMax == 50

\* the rule with the limit itself truncated
ConversationTitle_AtLimit(content) ==
  IF Len(content) >= TitleMax
    THEN substring0(content, TitleMax) \o Ellipsis
    ELSE content

ConversationTitle(content) ==
  IF Len(content) > TitleMax
    THEN substring0(content, TitleMax) \o Ellipsis
    ELSE content

(***************************************************************************)
(* Routing of a user turn (sendMessage) and the generation request.        *)
(***************************************************************************)
HF_MODELS == {"CHAT", "CONVERSATIONAL", "SUPPORTIVE", "CREATIVE"}

\* null of moodService.getTodaysMoodEntry
NoMood == [mood_type |-> "", intensity |-> 0]

NoRequest ==
  [path |-> "none", model |-> "", contentType |-> "", mood |-> NoMood, temperature |-> 0]

\* the sub-type with the narration test first
ContentType_NarrationFirst(currentInput) ==
  IF includes(toLowerCase(currentInput), KwNarrat) THEN "narration"
  ELSE IF includes(toLowerCase(currentInput), KwScript) THEN "script"
  ELSE "story"

\* the content sub-type passed to generateCreativeContent
ContentType(currentInput) ==
  IF includes(toLowerCase(currentInput), KwScript) THEN "script"
  ELSE IF includes(toLowerCase(currentInput), KwNarrat) THEN "narration"
  ELSE "story"

\* the routing with the creative test before the mood test
Route_CreativeFirst(useAdv, todaysMood, currentInput, model) ==
  IF useAdv
    THEN IF \/ includes(toLowerCase(currentInput), KwStory)
            \/ includes(toLowerCase(currentInput), KwScript)
            \/ includes(toLowerCase(currentInput), KwNarrat)
           THEN [path |-> "creative", model |-> "CREATIVE",
                 contentType |-> ContentType(currentInput),
                 mood |-> NoMood, temperature |-> 9]
         ELSE IF /\ todaysMood # NoMood
                 /\ \/ includes(toLowerCase(currentInput), KwFeel)
                    \/ includes(toLowerCase(currentInput), KwMood)
           THEN [path |-> "supportive", model |-> "SUPPORTIVE", contentType |-> "",
                 mood |-> todaysMood, temperature |-> 8]
         ELSE [path |-> "chat", model |-> model, contentType |-> "",
               mood |-> NoMood, temperature |-> 8]
    ELSE [path |-> "chat", model |-> "CHAT", contentType |-> "",
          mood |-> NoMood, temperature |-> 7]

\* the routing with the selected model on the basic path too
Route_SelectedModel(useAdv, todaysMood, currentInput, model) ==
  IF useAdv
    THEN IF /\ todaysMood # NoMood
            /\ \/ includes(toLowerCase(currentInput), KwFeel)
               \/ includes(toLowerCase(currentInput), KwMood)
           THEN [path |-> "supportive", model |-> "SUPPORTIVE", contentType |-> "",
                 mood |-> todaysMood, temperature |-> 8]
         ELSE IF \/ includes(toLowerCase(currentInput), KwStory)
                 \/ includes(toLowerCase(currentInput), KwScript)
                 \/ includes(toLowerCase(currentInput), KwNarrat)
           THEN [path |-> "creative", model |-> "CREATIVE",
                 contentType |-> ContentType(currentInput),
                 mood |-> NoMood, temperature |-> 9]
         ELSE [path |-> "chat", model |-> model, contentType |-> "",
               mood |-> NoMood, temperature |-> 8]
    ELSE [path |-> "chat", model |-> model, contentType |-> "",
          mood |-> NoMood, temperature |-> 7]

\* temperature is kept in tenths
Route(useAdv, todaysMood, currentInput, model) ==
  IF useAdv
    THEN IF /\ todaysMood # NoMood
            /\ \/ includes(toLowerCase(currentInput), KwFeel)
               \/ includes(toLowerCase(currentInput), KwMood)
           THEN [path |-> "supportive", model |-> "SUPPORTIVE", contentType |-> "",
                 mood |-> todaysMood, temperature |-> 8]
         ELSE IF \/ includes(toLowerCase(currentInput), KwStory)
                 \/ includes(toLowerCase(currentInput), KwScript)
                 \/ includes(toLowerCase(currentInput), KwNarrat)
           THEN [path |-> "creative", model |-> "CREATIVE",
                 contentType |-> ContentType(currentInput),
                 mood |-> NoMood, temperature |-> 9]
         ELSE [path |-> "chat", model |-> model, contentType |-> "",
               mood |-> NoMood, temperature |-> 8]
    ELSE [path |-> "chat", model |-> "CHAT", contentType |-> "",
          mood |-> NoMood, temperature |-> 7]

(***************************************************************************)
(* Canned responses (generateFallbackResponse).                            *)
(***************************************************************************)
moodResponses ==
  << <<"I"," ","u","n","d","e","r","s","t","a","n","d"," ","y","o","u">>,
     <<"T","h","a","n","k"," ","y","o","u"," ","f","o","r"," ","o","p">>,
     <<"I"," ","a","p","p","r","e","c","i","a","t","e"," ","y","o","u">>,
     <<"I","t"," ","s","o","u","n","d","s"," ","l","i","k","e"," ","y">>,
     <<"Y","o","u","r"," ","f","e","e","l","i","n","g","s"," ","a","r">> >>
storyResponses ==
  << <<"G","r","e","a","t"," ","s","t","o","r","y","t","e","l","l","i">>,
     <<"E","v","e","r","y"," ","g","o","o","d"," ","n","a","r","r","a">>,
     <<"F","o","r"," ","n","a","r","r","a","t","i","v","e"," ","s","t">>,
     <<"C","h","a","r","a","c","t","e","r"," ","d","e","v","e","l","o">> >>
voiceResponses ==
  << <<"F","o","r"," ","e","f","f","e","c","t","i","v","e"," ","v","o">>,
     <<"V","o","i","c","e"," ","n","a","r","r","a","t","i","o","n"," ">>,
     <<"C","o","n","s","i","d","e","r"," ","y","o","u","r"," ","a","u">>,
     <<"G","o","o","d"," ","n","a","r","r","a","t","i","o","n"," ","p">> >>
contentResponses ==
  << <<"C","o","n","t","e","n","t"," ","c","r","e","a","t","i","o","n">>,
     <<"E","f","f","e","c","t","i","v","e"," ","c","o","n","t","e","n">>,
     <<"F","o","r"," ","e","n","g","a","g","i","n","g"," ","c","o","n">>,
     <<"C","o","n","t","e","n","t"," ","t","h","a","t"," ","r","e","s">> >>
generalResponses ==
  << <<"T","h","a","t","'","s"," ","a","n"," ","i","n","t","e","r","e">>,
     <<"I","'","d"," ","l","o","v","e"," ","t","o"," ","h","e","l","p">>,
     <<"G","r","e","a","t"," ","q","u","e","s","t","i","o","n","!"," ">>,
     <<"T","h","a","t"," ","s","o","u","n","d","s"," ","l","i","k","e">> >>
helpResponse == <<"I","'","m"," ","N","a","r","u","m","a","t","e","A","I",","," ">>

Range(f) == {f[i] : i \in DOMAIN f}

\* the buckets with the content-creation test ahead of the narration/voice test
generateFallbackResponse_ContentFirst(userInput, mood) ==
  LET inp == toLowerCase(userInput)
  IN  IF includes(inp, KwFeel) \/ includes(inp, KwMood) \/ includes(inp, KwEmotion) \/ mood # ""
        THEN Range(moodResponses)
      ELSE IF includes(inp, KwStory) \/ includes(inp, KwNarrative) \/ includes(inp, KwPlot)
        THEN Range(storyResponses)
      ELSE IF includes(inp, KwContent) \/ includes(inp, KwCreate) \/ includes(inp, KwWrite)
        THEN Range(contentResponses)
      ELSE IF includes(inp, KwVoice) \/ includes(inp, KwNarration) \/ includes(inp, KwScript)
        THEN Range(voiceResponses)
      ELSE IF includes(inp, KwHelp) \/ includes(inp, KwHow) \/ includes(inp, KwWhat)
        THEN {helpResponse}
      ELSE Range(generalResponses)

\* the set Math.random() draws the canned response from; mood is a mood type or ""
generateFallbackResponse(userInput, mood) ==
  LET inp == toLowerCase(userInput)
  IN  IF includes(inp, KwFeel) \/ includes(inp, KwMood) \/ includes(inp, KwEmotion) \/ mood # ""
        THEN Range(moodResponses)
      ELSE IF includes(inp, KwStory) \/ includes(inp, KwNarrative) \/ includes(inp, KwPlot)
        THEN Range(storyResponses)
      ELSE IF includes(inp, KwVoice) \/ includes(inp, KwNarration) \/ includes(inp, KwScript)
        THEN Range(voiceResponses)
      ELSE IF includes(inp, KwContent) \/ includes(inp, KwCreate) \/ includes(inp, KwWrite)
        THEN Range(contentResponses)
      ELSE IF includes(inp, KwHelp) \/ includes(inp, KwHow) \/ includes(inp, KwWhat)
        THEN {helpResponse}
      ELSE Range(generalResponses)


(***************************************************************************)
(* The persistence tier: the conversations, messages and mood_entries      *)
(* tables of the migrations, with the foreign key of messages (ON DELETE   *)
(* CASCADE) and the update_conversations_updated_at trigger.  mood_entries *)
(* holds the entries whose date is today, in creation order.               *)
(***************************************************************************)
ConvRow(title, now) ==
  [title |-> title, created_at |-> now, updated_at |-> now, user_id |-> "anonymous"]

MsgRow(cid, role, content, now) ==
  [conversation_id |-> cid, role |-> role, content |-> content, timestamp |-> now]

\* conversationService.createConversation: the table after the insert of row id
createConversation(d, up, id, now) ==
  IF up
    THEN [d EXCEPT !.conversations =
            [c \in DOMAIN d.conversations \cup {id} |->
               IF c = id THEN ConvRow(NewConversationTitle, now) ELSE d.conversations[c]]]
    ELSE d

\* an update that writes the whole row anew, created_at included
updateConversationTitle_ResetsCreatedAt(d, up, id, title, now) ==
  IF up /\ id \in DOMAIN d.conversations
    THEN [d EXCEPT !.conversations[id] = ConvRow(title, now)]
    ELSE d

\* conversationService.updateConversationTitle; the trigger sets updated_at
updateConversationTitle(d, up, id, title, now) ==
  IF up /\ id \in DOMAIN d.conversations
    THEN [d EXCEPT !.conversations[id].title = title,
                   !.conversations[id].updated_at = now]
    ELSE d

\* conversationService.deleteConversation; messages go with their conversation
deleteConversation(d, up, id) ==
  IF up
    THEN [d EXCEPT !.conversations = [c \in DOMAIN d.conversations \ {id} |-> d.conversations[c]],
                   !.messages = SelectSeq(d.messages, LAMBDA m : m.conversation_id # id)]
    ELSE d

\* The outcome of one call of the supabase client: data, an error result, or
\* an exception.  The value an adapter operation returns carries its kind.
Outcomes == {"ok", "error", "throws"}

Null == [tag |-> "null"]

RowResult(row) == [tag |-> "row", value |-> row]

ListResult(rows) == [tag |-> "list", value |-> rows]

BoolResult(b) == [tag |-> "boolean", value |-> b]

\* the frame without its catch: the exception reaches the caller
TryCatch_Rethrows(o, data, degraded) ==
  CASE o = "ok" -> data
    [] o = "error" -> degraded
    [] o = "throws" -> [tag |-> "raised"]

\* the frame of every adapter operation:
\* try { ...; if (error) return degraded; return data } catch { return degraded }
TryCatch(o, data, degraded) ==
  CASE o = "ok" -> data
    [] o = "error" -> degraded
    [] o = "throws" -> degraded

\* messageService.addMessage, its insert ending o1 and its update of the
\* conversation's updated_at ending o2.  The insert fails on a missing
\* conversation (foreign key).  The result of the update is not looked at; an
\* exception of the update is caught with the message row already inserted.
addMessageCall(d, o1, o2, cid, role, content, now) ==
  LET insert   == IF cid \in DOMAIN d.conversations THEN o1
                  ELSE IF o1 = "ok" THEN "error" ELSE o1
      inserted == [d EXCEPT !.messages = Append(@, MsgRow(cid, role, content, now))]
      updated  == [inserted EXCEPT !.conversations[cid].updated_at = now]
  IN  IF insert # "ok"
        THEN [db |-> d, result |-> TryCatch(insert, Null, Null)]
        ELSE [db |-> IF o2 = "ok" THEN updated ELSE inserted,
              result |-> TryCatch(IF o2 = "throws" THEN "throws" ELSE "ok",
                                  RowResult(MsgRow(cid, role, content, now)), Null)]

\* messageService.addMessage against a tier that is reachable or not
addMessage(d, up, cid, role, content, now) ==
  addMessageCall(d, IF up THEN "ok" ELSE "error", IF up THEN "ok" ELSE "error",
                 cid, role, content, now).db

\* ORDER BY timestamp ASC, as an insertion sort
RECURSIVE OrderByTimestamp(_)
OrderByTimestamp(rows) ==
  IF rows = <<>> THEN <<>>
  ELSE LET rest == OrderByTimestamp(Tail(rows))
           r    == Head(rows)
           k    == Cardinality({i \in 1..Len(rest) : rest[i].timestamp <= r.timestamp})
       IN  SubSeq(rest, 1, k) \o <<r>> \o SubSeq(rest, k + 1, Len(rest))

\* messageService.getMessages
getMessages(d, up, cid) ==
  IF up
    THEN OrderByTimestamp(SelectSeq(d.messages, LAMBDA m : m.conversation_id = cid))
    ELSE <<>>

\* ORDER BY updated_at DESC over the conversation ids in ids
RECURSIVE OrderByUpdatedAt(_, _)
OrderByUpdatedAt(d, ids) ==
  IF ids = {} THEN <<>>
  ELSE LET top == CHOOSE c \in ids :
                    \A e \in ids : \/ d.conversations[e].updated_at < d.conversations[c].updated_at
                                   \/ /\ d.conversations[e].updated_at = d.conversations[c].updated_at
                                      /\ e <= c
       IN  <<top>> \o OrderByUpdatedAt(d, ids \ {top})

\* conversationService.getConversations: the rows with their ids
getConversations(d, up) ==
  IF up
    THEN LET ids == OrderByUpdatedAt(d, DOMAIN d.conversations)
         IN  [i \in 1..Len(ids) |->
                [id |-> ids[i], title |-> d.conversations[ids[i]].title,
                 created_at |-> d.conversations[ids[i]].created_at,
                 updated_at |-> d.conversations[ids[i]].updated_at,
                 user_id |-> d.conversations[ids[i]].user_id]]
    ELSE <<>>

\* moodService.addMoodEntry
addMoodEntry(d, up, moodType, intensity) ==
  IF up
    THEN [d EXCEPT !.mood_entries = Append(@, [mood_type |-> moodType, intensity |-> intensity])]
    ELSE d

\* moodService.getTodaysMoodEntry: ORDER BY created_at DESC LIMIT 1
getTodaysMoodEntry(d, up) ==
  IF up /\ Len(d.mood_entries) > 0 THEN d.mood_entries[Len(d.mood_entries)] ELSE NoMood

\* saveMessageToDb deriving the title when the list is not empty
saveMessageToDb_TitleOnReply(d, up, connected, cur, msgs, role, content, now) ==
  IF ~connected \/ cur = 0
    THEN d
    ELSE LET d1 == addMessage(d, up, cur, role, content, now)
         IN  IF role = "user" /\ Len(msgs) # 0
               THEN updateConversationTitle(d1, up, cur, ConversationTitle(content), now)
               ELSE d1

\* saveMessageToDb as the closure of a render sees it: cur and msgs are the
\* currentConversationId and messages of that render
saveMessageToDb(d, up, connected, cur, msgs, role, content, now) ==
  IF ~connected \/ cur = 0
    THEN d
    ELSE LET d1 == addMessage(d, up, cur, role, content, now)
         IN  IF role = "user" /\ Len(msgs) = 0
               THEN updateConversationTitle(d1, up, cur, ConversationTitle(content), now)
               ELSE d1


(***************************************************************************)
(* State.                                                                  *)
(***************************************************************************)
VARIABLES
  isSupabaseConnected,    \* ChatInterface: both persistence settings present
  messages,               \* ChatInterface: the in-memory message list
  input,                  \* ChatInterface: the text of the input box
  isLoading,              \* ChatInterface: a send turn is in flight
  currentConversationId,  \* ChatInterface: the active conversation, 0 for null
  aiModel,                \* ChatInterface: the selected model
  useAdvancedMode,        \* ChatInterface: the advanced-mode setting
  send,                   \* the sendMessage call in flight and its closure
  pendingLoads,           \* loadConversation calls awaiting getMessages
  newConv,                \* a createNewConversation call of the button awaits createConversation
  conversations,          \* ConversationSidebar: the conversation list
  sidebarLoading,         \* ConversationSidebar: loadConversations is in flight
  del,                    \* the handleDeleteConversation call in flight
  db,                     \* the persistence tier
  dbUp,                   \* the persistence tier answers without error
  nextId,                 \* the id of the next conversation row
  clock,                  \* the time, one tick per action that reads it
  calc                    \* a function applied on its own (argument and result), or
                          \* the state of a component examined on its own

vars ==
  <<isSupabaseConnected, messages, input, isLoading, currentConversationId, aiModel,
    useAdvancedMode, send, pendingLoads, newConv, conversations, sidebarLoading, del,
    db, dbUp, nextId, clock, calc>>

chatVars == <<messages, input, isLoading, currentConversationId, aiModel, useAdvancedMode>>
sidebarVars == <<conversations, sidebarLoading>>

Msg(role, content) == [role |-> role, content |-> content]

IdleSend ==
  [pc |-> "idle", cur |-> 0, msgs |-> <<>>, currentInput |-> <<>>, conversationId |-> 0,
   adv |-> FALSE, model |-> "CHAT", request |-> NoRequest, assistantContent |-> <<>>]

IdleDel == [pc |-> "idle", id |-> 0, cur |-> 0]

NoCalc == [op |-> "none"]

(***************************************************************************)
(* Inputs of the chat model.                                               *)
(***************************************************************************)
TextHelp == <<"h","e","l","p"," ","m","e">>
TextBlank == <<" ">>
TextHello == <<"H","e","l","l","o"," ","w","o","r","l","d">>
TextOk == <<"o","k">>
TextOkPadded == <<" ","o","k"," ">>

\* what the user types or picks as a quick prompt
ChatInputs == {TextHelp, TextBlank}

\* the texts a successful generation call returns
GenTexts == {TextOkPadded, TextBlank}

\* the moods and intensities submitted through the mood selector
SubmittedMoods == {"happy"}
SubmittedIntensities == {3}

MoodName ==
  [happy |-> <<"h","a","p","p","y">>, anxious |-> <<"a","n","x","i","o","u","s">>]

Digit == [i \in 1..5 |-> CASE i = 1 -> "1" [] i = 2 -> "2" [] i = 3 -> "3" [] i = 4 -> "4" [] i = 5 -> "5"]

\* the mood-context message of handleMoodSelected, up to the first sentence
MoodMessage(mood, intensity) ==
  <<"I"," ","s","e","e"," ","y","o","u","'","r","e"," ","f","e","e","l","i","n","g"," ">>
    \o MoodName[mood]
    \o <<" ","w","i","t","h"," ","a","n"," ","i","n","t","e","n","s","i","t","y"," ","o","f"," ">>
    \o <<Digit[intensity]>> \o <<"/","5",".">>

(***************************************************************************)
(* The initial state: the page has just been opened.  The persistence tier *)
(* holds one conversation of an earlier session.                           *)
(***************************************************************************)
InitialDb ==
  [conversations |-> [c \in {1} |->
      [title |-> TextHello, created_at |-> 0, updated_at |-> 2, user_id |-> "anonymous"]],
   messages |-> << MsgRow(1, "user", TextHello, 1), MsgRow(1, "assistant", TextOk, 2) >>,
   mood_entries |-> <<>>]

\* the seeded rows were written at times 0, 1 and 2
InitialClock == Len(InitialDb.messages) + 1

ChatInit ==
  /\ isSupabaseConnected \in BOOLEAN
  /\ messages = <<>>
  /\ input = <<>>
  /\ isLoading = FALSE
  /\ currentConversationId = 0
  /\ aiModel = "CHAT"
  /\ useAdvancedMode = FALSE
  /\ send = IdleSend
  /\ pendingLoads = {}
  /\ newConv = FALSE
  /\ conversations = <<>>
  /\ sidebarLoading = isSupabaseConnected
  /\ del = IdleDel
  /\ db = InitialDb
  /\ dbUp = TRUE
  /\ nextId = 2
  /\ clock = InitialClock

Init == ChatInit /\ calc = NoCalc


(***************************************************************************)
(* Caps: the clock stops at ClockLimit and ids stop at MaxConvs.  A call   *)
(* that will create a conversation reserves its id when it starts.         *)
(***************************************************************************)
ClockLimit == InitialClock + MaxClock

Reserved ==
  (IF send.pc = "create" THEN 1 ELSE 0)
    + (IF newConv THEN 1 ELSE 0)
    + (IF del.pc = "creating" \/ (del.pc = "deleting" /\ del.cur = del.id) THEN 1 ELSE 0)

CanReserve == nextId + Reserved <= MaxConvs

InFlight ==
  (IF send.pc # "idle" THEN 1 ELSE 0) + (IF newConv THEN 1 ELSE 0)
    + (IF del.pc # "idle" THEN 1 ELSE 0) + Cardinality(pendingLoads)
    + (IF sidebarLoading THEN 1 ELSE 0)

CanStart == InFlight < MaxInFlight

(***************************************************************************)
(* ChatInterface: the input box and the settings panel.                    *)
(***************************************************************************)
\* onChange of the textarea, handleQuickPrompt
SetInput(text) ==
  /\ text # input
  /\ input' = text
  /\ UNCHANGED <<isSupabaseConnected, messages, isLoading, currentConversationId, aiModel,
                 useAdvancedMode, send, pendingLoads, newConv, conversations,
                 sidebarLoading, del, db, dbUp, nextId, clock, calc>>

ToggleAdvancedMode ==
  /\ useAdvancedMode' = ~useAdvancedMode
  /\ UNCHANGED <<isSupabaseConnected, messages, input, isLoading, currentConversationId,
                 aiModel, send, pendingLoads, newConv, conversations, sidebarLoading,
                 del, db, dbUp, nextId, clock, calc>>

\* the model radio buttons are rendered in advanced mode only
SetAiModel(m) ==
  /\ useAdvancedMode
  /\ m # aiModel
  /\ aiModel' = m
  /\ UNCHANGED <<isSupabaseConnected, messages, input, isLoading, currentConversationId,
                 useAdvancedMode, send, pendingLoads, newConv, conversations,
                 sidebarLoading, del, db, dbUp, nextId, clock, calc>>

(***************************************************************************)
(* ChatInterface.sendMessage, one action per stretch between two awaits.   *)
(* The closure of the render that handled the submit is kept in send:      *)
(* cur, msgs, adv and model are its currentConversationId, messages,       *)
(* useAdvancedMode and aiModel.                                            *)
(***************************************************************************)
\* where the turn goes after the optional createConversation
AfterCreate(conversationId) ==
  IF isSupabaseConnected /\ conversationId # 0 THEN "saveUser" ELSE "route"

\* the handler without the test of isLoading in its guard
SendMessage_NoLoadingTest ==
  /\ trim(input) # <<>>
  /\ CanStart
  /\ Len(messages) + 2 <= MaxMessages
  /\ (isSupabaseConnected /\ currentConversationId = 0) => CanReserve
  /\ messages' = Append(messages, Msg("user", trim(input)))
  /\ input' = <<>>
  /\ isLoading' = TRUE
  /\ send' = [pc |-> IF isSupabaseConnected /\ currentConversationId = 0
                       THEN "create" ELSE AfterCreate(currentConversationId),
              cur |-> currentConversationId,
              msgs |-> messages,
              currentInput |-> trim(input),
              conversationId |-> currentConversationId,
              adv |-> useAdvancedMode,
              model |-> aiModel,
              request |-> NoRequest,
              assistantContent |-> <<>>]
  /\ UNCHANGED <<isSupabaseConnected, currentConversationId, aiModel, useAdvancedMode,
                 pendingLoads, newConv, conversations, sidebarLoading, del, db, dbUp,
                 nextId, clock, calc>>

\* lines 93-110: the guard, the user message, the loading flag
SendMessage ==
  /\ trim(input) # <<>>
  /\ ~isLoading
  /\ CanStart
  /\ Len(messages) + 2 <= MaxMessages
  /\ (isSupabaseConnected /\ currentConversationId = 0) => CanReserve
  /\ messages' = Append(messages, Msg("user", trim(input)))
  /\ input' = <<>>
  /\ isLoading' = TRUE
  /\ send' = [pc |-> IF isSupabaseConnected /\ currentConversationId = 0
                       THEN "create" ELSE AfterCreate(currentConversationId),
              cur |-> currentConversationId,
              msgs |-> messages,
              currentInput |-> trim(input),
              conversationId |-> currentConversationId,
              adv |-> useAdvancedMode,
              model |-> aiModel,
              request |-> NoRequest,
              assistantContent |-> <<>>]
  /\ UNCHANGED <<isSupabaseConnected, currentConversationId, aiModel, useAdvancedMode,
                 pendingLoads, newConv, conversations, sidebarLoading, del, db, dbUp,
                 nextId, clock, calc>>

\* lines 111-116: createConversation returns
SendCreateConversation ==
  /\ send.pc = "create"
  /\ IF dbUp
       THEN /\ clock < ClockLimit
            /\ db' = createConversation(db, dbUp, nextId, clock)
            /\ nextId' = nextId + 1
            /\ clock' = clock + 1
            /\ currentConversationId' = nextId
            /\ send' = [send EXCEPT !.conversationId = nextId, !.pc = AfterCreate(nextId)]
       ELSE /\ send' = [send EXCEPT !.pc = AfterCreate(send.conversationId)]
            /\ UNCHANGED <<db, nextId, clock, currentConversationId>>
  /\ UNCHANGED <<isSupabaseConnected, messages, input, isLoading, aiModel, useAdvancedMode,
                 pendingLoads, newConv, conversations, sidebarLoading, del, dbUp, calc>>

\* lines 119-121: saveMessageToDb('user', currentInput) returns
SendSaveUser ==
  /\ send.pc = "saveUser"
  /\ clock < ClockLimit
  /\ db' = saveMessageToDb(db, dbUp, isSupabaseConnected, send.cur, send.msgs,
                           "user", send.currentInput, clock)
  /\ clock' = IF db' = db THEN clock ELSE clock + 1
  /\ send' = [send EXCEPT !.pc = "route"]
  /\ UNCHANGED <<isSupabaseConnected, messages, input, isLoading, currentConversationId,
                 aiModel, useAdvancedMode, pendingLoads, newConv, conversations,
                 sidebarLoading, del, dbUp, nextId, calc>>

\* the routing step reading today's mood whatever the mode of persistence
SendRoute_ReadsMood ==
  /\ send.pc = "route"
  /\ LET todaysMood == IF send.adv THEN getTodaysMoodEntry(db, dbUp) ELSE NoMood
     IN  send' = [send EXCEPT !.pc = "generate",
                              !.request = Route(send.adv, todaysMood, send.currentInput, send.model)]
  /\ UNCHANGED <<isSupabaseConnected, messages, input, isLoading, currentConversationId,
                 aiModel, useAdvancedMode, pendingLoads, newConv, conversations,
                 sidebarLoading, del, db, dbUp, nextId, clock, calc>>

\* lines 133-165: today's mood is read in advanced mode, the path is chosen and
\* the one generation request of the turn is issued
SendRoute ==
  /\ send.pc = "route"
  /\ LET todaysMood == IF send.adv /\ isSupabaseConnected
                         THEN getTodaysMoodEntry(db, dbUp) ELSE NoMood
     IN  send' = [send EXCEPT !.pc = "generate",
                              !.request = Route(send.adv, todaysMood, send.currentInput, send.model)]
  /\ UNCHANGED <<isSupabaseConnected, messages, input, isLoading, currentConversationId,
                 aiModel, useAdvancedMode, pendingLoads, newConv, conversations,
                 sidebarLoading, del, db, dbUp, nextId, clock, calc>>

\* the returned text without the substitution of an empty one
AssistantContents_NoFallback(text, currentInput) == {trim(text)}

\* lines 167-171: the text of the assistant message for a returned text
AssistantContents(text, currentInput) ==
  IF trim(text) = <<>> THEN generateFallbackResponse(currentInput, "") ELSE {trim(text)}

\* lines 190-194: the text of the assistant message after a failed call
CatchContents(currentInput, todaysMood) ==
  generateFallbackResponse(currentInput, todaysMood.mood_type)

\* lines 203-205 reached without a further await: the turn is over
FinishOrSave(content) ==
  IF isSupabaseConnected /\ send.conversationId # 0
    THEN /\ send' = [send EXCEPT !.pc = "saveAssistant", !.assistantContent = content]
         /\ UNCHANGED isLoading
    ELSE /\ send' = IdleSend
         /\ isLoading' = FALSE

\* lines 167-180: the generation call returns a text
SendGenerateReturns(text) ==
  /\ send.pc = "generate"
  /\ \E content \in AssistantContents(text, send.currentInput) :
       /\ messages' = Append(messages, Msg("assistant", content))
       /\ FinishOrSave(content)
  /\ UNCHANGED <<isSupabaseConnected, input, currentConversationId, aiModel,
                 useAdvancedMode, pendingLoads, newConv, conversations, sidebarLoading,
                 del, db, dbUp, nextId, clock, calc>>

\* lines 186-197: the generation call throws
SendGenerateThrows ==
  /\ send.pc = "generate"
  /\ LET todaysMood == IF isSupabaseConnected THEN getTodaysMoodEntry(db, dbUp) ELSE NoMood
     IN  \E content \in CatchContents(send.currentInput, todaysMood) :
           /\ messages' = Append(messages, Msg("assistant", content))
           /\ FinishOrSave(content)
  /\ UNCHANGED <<isSupabaseConnected, input, currentConversationId, aiModel,
                 useAdvancedMode, pendingLoads, newConv, conversations, sidebarLoading,
                 del, db, dbUp, nextId, clock, calc>>

\* the last step of the turn without the finally block of lines 203-205
SendSaveAssistant_NoFinally ==
  /\ send.pc = "saveAssistant"
  /\ clock < ClockLimit
  /\ db' = saveMessageToDb(db, dbUp, isSupabaseConnected, send.cur, send.msgs,
                           "assistant", send.assistantContent, clock)
  /\ clock' = IF db' = db THEN clock ELSE clock + 1
  /\ send' = IdleSend
  /\ isLoading' = (db' = db)
  /\ UNCHANGED <<isSupabaseConnected, messages, input, currentConversationId, aiModel,
                 useAdvancedMode, pendingLoads, newConv, conversations, sidebarLoading,
                 del, dbUp, nextId, calc>>

\* lines 183-185 and 200-205: saveMessageToDb('assistant', ...) returns
SendSaveAssistant ==
  /\ send.pc = "saveAssistant"
  /\ clock < ClockLimit
  /\ db' = saveMessageToDb(db, dbUp, isSupabaseConnected, send.cur, send.msgs,
                           "assistant", send.assistantContent, clock)
  /\ clock' = IF db' = db THEN clock ELSE clock + 1
  /\ send' = IdleSend
  /\ isLoading' = FALSE
  /\ UNCHANGED <<isSupabaseConnected, messages, input, currentConversationId, aiModel,
                 useAdvancedMode, pendingLoads, newConv, conversations, sidebarLoading,
                 del, dbUp, nextId, calc>>


(***************************************************************************)
(* ChatInterface: createNewConversation, loadConversation and              *)
(* handleMoodSelected.  The sidebar, which calls the first two, is         *)
(* rendered only while isSupabaseConnected.                                *)
(***************************************************************************)
\* lines 50-58 of createNewConversation, called by the New Conversation button
NewConversationClick ==
  /\ isSupabaseConnected
  /\ ~newConv
  /\ CanStart
  /\ CanReserve
  /\ newConv' = TRUE
  /\ UNCHANGED <<isSupabaseConnected, messages, input, isLoading, currentConversationId,
                 aiModel, useAdvancedMode, send, pendingLoads, conversations,
                 sidebarLoading, del, db, dbUp, nextId, clock, calc>>

\* lines 58-62 of createNewConversation: createConversation has returned
CreateNewConversationReturns ==
  IF dbUp
    THEN /\ clock < ClockLimit
         /\ db' = createConversation(db, dbUp, nextId, clock)
         /\ nextId' = nextId + 1
         /\ clock' = clock + 1
         /\ currentConversationId' = nextId
         /\ messages' = <<>>
    ELSE UNCHANGED <<db, nextId, clock, currentConversationId, messages>>

NewConversationReturns ==
  /\ newConv
  /\ CreateNewConversationReturns
  /\ newConv' = FALSE
  /\ UNCHANGED <<isSupabaseConnected, input, isLoading, aiModel, useAdvancedMode, send,
                 pendingLoads, conversations, sidebarLoading, del, dbUp, calc>>

\* lines 65-69 of loadConversation, called with the id of a sidebar entry
SelectConversation(i) ==
  /\ isSupabaseConnected
  /\ i \in 1..Len(conversations)
  /\ conversations[i].id \notin pendingLoads
  /\ CanStart
  /\ currentConversationId' = conversations[i].id
  /\ pendingLoads' = pendingLoads \cup {conversations[i].id}
  /\ UNCHANGED <<isSupabaseConnected, messages, input, isLoading, aiModel, useAdvancedMode,
                 send, newConv, conversations, sidebarLoading, del, db, dbUp, nextId,
                 clock, calc>>

\* lines 71-76 of loadConversation
FormatMessages(rows) == [i \in 1..Len(rows) |-> Msg(rows[i].role, rows[i].content)]

\* lines 69-78 of loadConversation: getMessages has returned
LoadConversationReturns(cid) ==
  /\ cid \in pendingLoads
  /\ messages' = FormatMessages(getMessages(db, dbUp, cid))
  /\ pendingLoads' = pendingLoads \ {cid}
  /\ UNCHANGED <<isSupabaseConnected, input, isLoading, currentConversationId, aiModel,
                 useAdvancedMode, send, newConv, conversations, sidebarLoading, del, db,
                 dbUp, nextId, clock, calc>>

\* MoodSelector.handleSubmit followed by ChatInterface.handleMoodSelected: the
\* entry is added when connected, the mood-context message is appended and saved
SubmitMood(mood, intensity) ==
  /\ clock < ClockLimit
  /\ Len(messages) < MaxMessages
  /\ messages' = Append(messages, Msg("assistant", MoodMessage(mood, intensity)))
  /\ db' = saveMessageToDb(
             IF isSupabaseConnected THEN addMoodEntry(db, dbUp, mood, intensity) ELSE db,
             dbUp, isSupabaseConnected, currentConversationId, messages,
             "assistant", MoodMessage(mood, intensity), clock)
  /\ clock' = IF db' = db THEN clock ELSE clock + 1
  /\ UNCHANGED <<isSupabaseConnected, input, isLoading, currentConversationId, aiModel,
                 useAdvancedMode, send, pendingLoads, newConv, conversations,
                 sidebarLoading, del, dbUp, nextId, calc>>

(***************************************************************************)
(* ConversationSidebar: loadConversations and handleDeleteConversation.    *)
(***************************************************************************)
\* lines 29-34: getConversations has returned
LoadConversationsReturns ==
  /\ sidebarLoading
  /\ conversations' = getConversations(db, dbUp)
  /\ sidebarLoading' = FALSE
  /\ UNCHANGED <<isSupabaseConnected, messages, input, isLoading, currentConversationId,
                 aiModel, useAdvancedMode, send, pendingLoads, newConv, del, db, dbUp,
                 nextId, clock, calc>>

\* lines 36-38: the user confirms; cur is the currentConversationId prop of the
\* render that handled the click
DeleteClick(i) ==
  /\ isSupabaseConnected
  /\ del.pc = "idle"
  /\ CanStart
  /\ i \in 1..Len(conversations)
  /\ (currentConversationId = conversations[i].id) => CanReserve
  /\ del' = [pc |-> "deleting", id |-> conversations[i].id, cur |-> currentConversationId]
  /\ UNCHANGED <<isSupabaseConnected, messages, input, isLoading, currentConversationId,
                 aiModel, useAdvancedMode, send, pendingLoads, newConv, conversations,
                 sidebarLoading, db, dbUp, nextId, clock, calc>>

\* lines 38-44: deleteConversation has returned
DeleteReturns ==
  /\ del.pc = "deleting"
  /\ db' = deleteConversation(db, dbUp, del.id)
  /\ IF dbUp
       THEN /\ conversations' = SelectSeq(conversations, LAMBDA conv : conv.id # del.id)
            /\ del' = IF del.cur = del.id THEN [del EXCEPT !.pc = "creating"] ELSE IdleDel
       ELSE /\ del' = IdleDel
            /\ UNCHANGED conversations
  /\ UNCHANGED <<isSupabaseConnected, messages, input, isLoading, currentConversationId,
                 aiModel, useAdvancedMode, send, pendingLoads, newConv, sidebarLoading,
                 dbUp, nextId, clock, calc>>

\* line 42: the createNewConversation called by the delete handler completes
DeleteNewConversationReturns ==
  /\ del.pc = "creating"
  /\ CreateNewConversationReturns
  /\ del' = IdleDel
  /\ UNCHANGED <<isSupabaseConnected, input, isLoading, aiModel, useAdvancedMode, send,
                 pendingLoads, newConv, conversations, sidebarLoading, dbUp, calc>>

(***************************************************************************)
(* The environment: the persistence tier becomes unreachable and           *)
(* reachable again.                                                        *)
(***************************************************************************)
DbGoesDown ==
  /\ isSupabaseConnected
  /\ dbUp
  /\ dbUp' = FALSE
  /\ UNCHANGED <<isSupabaseConnected, messages, input, isLoading, currentConversationId,
                 aiModel, useAdvancedMode, send, pendingLoads, newConv, conversations,
                 sidebarLoading, del, db, nextId, clock, calc>>

DbComesUp ==
  /\ ~dbUp
  /\ dbUp' = TRUE
  /\ UNCHANGED <<isSupabaseConnected, messages, input, isLoading, currentConversationId,
                 aiModel, useAdvancedMode, send, pendingLoads, newConv, conversations,
                 sidebarLoading, del, db, nextId, clock, calc>>

(***************************************************************************)
(* Spec: the user turn against the persistence tier -- the input box, the  *)
(* settings, sendMessage, the New Conversation button, the mood selector   *)
(* and the failures of the tier.                                           *)
(***************************************************************************)
TierNext ==
  \/ LoadConversationsReturns
  \/ NewConversationClick
  \/ NewConversationReturns
  \/ DbGoesDown
  \/ DbComesUp

SendNext ==
  \/ \E text \in ChatInputs : SetInput(text)
  \/ SendMessage
  \/ SendCreateConversation
  \/ SendSaveUser
  \/ SendRoute
  \/ \E text \in GenTexts : SendGenerateReturns(text)
  \/ SendGenerateThrows
  \/ SendSaveAssistant

TurnNext ==
  \/ TierNext
  \/ SendNext
  \/ ToggleAdvancedMode

Next ==
  \/ TurnNext
  \/ \E mood \in SubmittedMoods, intensity \in SubmittedIntensities : SubmitMood(mood, intensity)

Spec == Init /\ [][Next]_vars

\* TurnSpec: the same without the mood selector
TurnSpec == Init /\ [][TurnNext]_vars

\* LiveSpec: TurnSpec with every pending await of sendMessage settling: the
\* calls to the tier and the generation request return or throw
SendGenerate == (\E text \in GenTexts : SendGenerateReturns(text)) \/ SendGenerateThrows

LiveSpec ==
  /\ TurnSpec
  /\ WF_vars(SendCreateConversation)
  /\ WF_vars(SendSaveUser)
  /\ WF_vars(SendRoute)
  /\ WF_vars(SendGenerate)
  /\ WF_vars(SendSaveAssistant)

(***************************************************************************)
(* SidebarSpec: the sidebar's select and delete against the tier.          *)
(***************************************************************************)
SidebarNext ==
  \/ TierNext
  \/ \E i \in 1..MaxConvs : SelectConversation(i)
  \/ \E cid \in 1..MaxConvs : LoadConversationReturns(cid)
  \/ \E i \in 1..MaxConvs : DeleteClick(i)
  \/ DeleteReturns
  \/ DeleteNewConversationReturns

SidebarSpec == Init /\ [][SidebarNext]_vars

(***************************************************************************)
(* SessionSpec: the turn together with the sidebar's select.               *)
(***************************************************************************)
SessionNext ==
  \/ TierNext
  \/ SendNext
  \/ \E i \in 1..MaxConvs : SelectConversation(i)
  \/ \E cid \in 1..MaxConvs : LoadConversationReturns(cid)

SessionSpec == Init /\ [][SessionNext]_vars

(***************************************************************************)
(* RouteSpec: the settings panel, the input box and the routing of a turn. *)
(* RouteTurn is the part of sendMessage that chooses the path, for a text  *)
(* the guard accepts and for each answer of getTodaysMoodEntry; calc keeps *)
(* what the turn saw and the request it issued.                            *)
(***************************************************************************)
RouteInputs ==
  { TextHelp, TextBlank,
    <<"I"," ","f","e","e","l"," ","o","v","e","r","w","h","e","l","m","e","d">>,
    <<"I"," ","F","e","e","l"," ","a"," ","S","t","o","r","y">>,
    <<"M","o","o","d"," ","S","C","R","I","P","T"," ","n","a","r","r","a","t","i","o","n">>,
    <<"n","a","r","r","a","t","e"," ","m","y"," ","s","t","o","r","y">>,
    <<"w","r","i","t","e"," ","a"," ","S","c","r","i","p","t">>,
    <<"T","e","l","l"," ","a"," ","S","T","O","R","Y">>,
    <<"m","y"," ","M","O","O","D"," ","t","o","d","a","y">>,
    <<"N","a","r","r","a","t","o","r"," ","v","o","i","c","e">>,
    <<"s","c","r","i","p","t"," ","n","a","r","r","a","t","i","o","n"," ","s","t","o","r","y">>,
    <<"F","E","E","L","I","N","G","S"," ","a","n","d"," ","n","a","r","r","a","t","i","v","e","s">> }

RouteMoods ==
  {NoMood, [mood_type |-> "happy", intensity |-> 3], [mood_type |-> "anxious", intensity |-> 5]}

RouteTurn(todaysMood) ==
  /\ trim(input) # <<>>
  /\ calc' = [op |-> "route", useAdvancedMode |-> useAdvancedMode,
              moodToday |-> todaysMood,
              todaysMood |-> IF useAdvancedMode THEN todaysMood ELSE NoMood,
              currentInput |-> trim(input), aiModel |-> aiModel,
              request |-> Route(useAdvancedMode, todaysMood, trim(input), aiModel)]
  /\ UNCHANGED <<isSupabaseConnected, messages, input, isLoading, currentConversationId,
                 aiModel, useAdvancedMode, send, pendingLoads, newConv, conversations,
                 sidebarLoading, del, db, dbUp, nextId, clock>>

RouteInit == ChatInit /\ isSupabaseConnected /\ calc = NoCalc

RouteNext ==
  \/ \E text \in RouteInputs : SetInput(text)
  \/ ToggleAdvancedMode
  \/ \E m \in HF_MODELS : SetAiModel(m)
  \/ \E todaysMood \in RouteMoods : RouteTurn(todaysMood)

RouteSpec == RouteInit /\ [][RouteNext]_vars

(***************************************************************************)
(* TitleSpec: the title rule of saveMessageToDb applied to contents of     *)
(* every length up to MaxContentLen.                                       *)
(***************************************************************************)
Alphabet == <<"a", "b", "c", " ", ".", "d", "e">>

\* the content of length n that starts at letter k of the alphabet
ContentOf(n, k) == [i \in 1..n |-> Alphabet[((i + k) % Len(Alphabet)) + 1]]

TitleInputs == {ContentOf(n, k) : n \in 0..MaxContentLen, k \in {0, 3}}

DeriveTitle ==
  /\ calc.op = "content"
  /\ calc' = [op |-> "title", content |-> calc.content,
              title |-> ConversationTitle(calc.content)]
  /\ UNCHANGED <<isSupabaseConnected, messages, input, isLoading, currentConversationId,
                 aiModel, useAdvancedMode, send, pendingLoads, newConv, conversations,
                 sidebarLoading, del, db, dbUp, nextId, clock>>

TitleInit ==
  /\ ChatInit /\ isSupabaseConnected
  /\ \E content \in TitleInputs : calc = [op |-> "content", content |-> content]

TitleSpec == TitleInit /\ [][DeriveTitle]_vars

(***************************************************************************)
(* MoodDashboard.getStreakCount.  A calendar date is a day number; today   *)
(* is day Today, and new Date(date).getTime() is the day's UTC midnight.   *)
(***************************************************************************)
MS_PER_DAY == 1000 * 60 * 60 * 24

Today == MaxDaysBack

getTime(date) == date * MS_PER_DAY

\* [...moodEntries].sort((a, b) => b.date - a.date): stable, latest first
RECURSIVE SortByDateDesc(_)
SortByDateDesc(entries) ==
  IF entries = <<>> THEN <<>>
  ELSE LET rest == SortByDateDesc(Tail(entries))
           e    == Head(entries)
           k    == Cardinality({i \in 1..Len(rest) :
                                  getTime(rest[i].date) - getTime(e.date) > 0})
       IN  SubSeq(rest, 1, k) \o <<e>> \o SubSeq(rest, k + 1, Len(rest))

\* lines 65-76: the walk over the sorted entries from entry i on
RECURSIVE CountConsecutive(_, _, _, _)
CountConsecutive(sortedEntries, i, currentDate, streak) ==
  IF i > Len(sortedEntries) THEN streak
  ELSE LET diff == (getTime(currentDate) - getTime(sortedEntries[i].date)) \div MS_PER_DAY
       IN  IF diff <= 1
             THEN CountConsecutive(sortedEntries, i + 1, sortedEntries[i].date, streak + 1)
             ELSE streak

\* the streak without the test of the latest entry against today
getStreakCount_NoBreak(moodEntries, today) ==
  IF Len(moodEntries) = 0 THEN 0
  ELSE LET sortedEntries == SortByDateDesc(moodEntries)
           latestEntry   == sortedEntries[1]
       IN  CountConsecutive(sortedEntries, 1, latestEntry.date, 0)

getStreakCount(moodEntries, today) ==
  IF Len(moodEntries) = 0 THEN 0
  ELSE LET sortedEntries == SortByDateDesc(moodEntries)
           latestEntry   == sortedEntries[1]
           daysDiff      == (getTime(today) - getTime(latestEntry.date)) \div MS_PER_DAY
       IN  IF daysDiff > 1 THEN 0
           ELSE CountConsecutive(sortedEntries, 1, latestEntry.date, 0)

(***************************************************************************)
(* StreakSpec: the streak of every entry list of at most MaxEntries        *)
(* entries dated within MaxDaysBack days before today.                     *)
(***************************************************************************)
EntryDates == (Today - MaxDaysBack)..Today

EntryLists ==
  UNION {[1..n -> {[date |-> d] : d \in EntryDates}] : n \in 0..MaxEntries}

ComputeStreak ==
  /\ calc.op = "entries"
  /\ calc' = [op |-> "streak", moodEntries |-> calc.moodEntries, today |-> Today,
              streak |-> getStreakCount(calc.moodEntries, Today)]
  /\ UNCHANGED <<isSupabaseConnected, messages, input, isLoading, currentConversationId,
                 aiModel, useAdvancedMode, send, pendingLoads, newConv, conversations,
                 sidebarLoading, del, db, dbUp, nextId, clock>>

StreakInit ==
  /\ ChatInit /\ isSupabaseConnected
  /\ \E entries \in EntryLists : calc = [op |-> "entries", moodEntries |-> entries]

StreakSpec == StreakInit /\ [][ComputeStreak]_vars

(***************************************************************************)
(* lib/moodService: the statistics of the mood entries of a date range.    *)
(* rows is the table mood_entries in the order of created_at; dates are    *)
(* day numbers; averageIntensity is kept in tenths.                        *)
(***************************************************************************)
DefaultDays == 30

MoodRow(moodType, intensity, date) ==
  [mood_type |-> moodType, intensity |-> intensity, date |-> date]

RECURSIVE Reverse(_)
Reverse(s) == IF s = <<>> THEN <<>> ELSE Append(Reverse(Tail(s)), Head(s))

\* the rows of the range, latest created first; [] when the read fails
getMoodEntriesInRange(rows, up, startDate, endDate) ==
  IF up
    THEN Reverse(SelectSeq(rows, LAMBDA r : r.date >= startDate /\ r.date <= endDate))
    ELSE <<>>

ZeroStats ==
  [totalEntries |-> 0, averageIntensity |-> 0, mostCommonMood |-> "",
   moodDistribution |-> [m \in {} |-> 0], weeklyTrend |-> <<>>]

\* entries.reduce((sum, entry) => sum + entry.intensity, 0)
RECURSIVE SumIntensity(_)
SumIntensity(entries) ==
  IF entries = <<>> THEN 0 ELSE Head(entries).intensity + SumIntensity(Tail(entries))

\* p / q in tenths, cut down to the tenth below
RoundedTenths_Floor(p, q) == (10 * p) \div q

\* Math.round(p / q * 10): the nearest integer, a half rounded up
RoundedTenths(p, q) == (2 * 10 * p + q) \div (2 * q)

\* the distribution with every category of moodTypes listed
MoodDistribution_ZeroFilled(entries) ==
  [m \in {"happy", "anxious", "sad"} |->
     Cardinality({i \in 1..Len(entries) : entries[i].mood_type = m})]

\* entries.forEach: one key per mood type met, its value the number of entries
MoodDistribution(entries) ==
  [m \in {entries[i].mood_type : i \in 1..Len(entries)} |->
     Cardinality({i \in 1..Len(entries) : entries[i].mood_type = m})]

\* the keys of the distribution in the order of their insertion
RECURSIVE KeysInOrder(_, _)
KeysInOrder(entries, seen) ==
  IF entries = <<>> THEN <<>>
  ELSE IF Head(entries).mood_type \in seen
    THEN KeysInOrder(Tail(entries), seen)
    ELSE <<Head(entries).mood_type>>
           \o KeysInOrder(Tail(entries), seen \cup {Head(entries).mood_type})

\* a sort that is not stable: the last key of the largest count
MostCommonMood_LastOfTies(entries) ==
  LET keys == KeysInOrder(entries, {})
      dist == MoodDistribution(entries)
  IN  IF keys = <<>> THEN ""
      ELSE keys[CHOOSE i \in 1..Len(keys) :
                  /\ \A j \in 1..Len(keys) : dist[keys[j]] <= dist[keys[i]]
                  /\ \A j \in (i + 1)..Len(keys) : dist[keys[j]] < dist[keys[i]]]

\* Object.entries(moodDistribution).sort(([,a], [,b]) => b - a)[0]?.[0] || '':
\* the sort is stable, so the first key of the largest count
MostCommonMood(entries) ==
  LET keys == KeysInOrder(entries, {})
      dist == MoodDistribution(entries)
  IN  IF keys = <<>> THEN ""
      ELSE keys[CHOOSE i \in 1..Len(keys) :
                  /\ \A j \in 1..Len(keys) : dist[keys[j]] <= dist[keys[i]]
                  /\ \A j \in 1..(i - 1) : dist[keys[j]] < dist[keys[i]]]

\* entries.slice(0, 7).map(...)
WeeklyTrend(entries) ==
  [i \in 1..(IF Len(entries) < 7 THEN Len(entries) ELSE 7) |->
     [date |-> entries[i].date, mood |-> entries[i].mood_type,
      intensity |-> entries[i].intensity]]

\* getMoodStats without the test of an empty list: 0 / 0 is NaN, kept here
\* as a negative number
getMoodStats_NoEmptyTest(rows, up, today, days) ==
  LET entries == getMoodEntriesInRange(rows, up, today - days, today)
  IN  [totalEntries |-> Len(entries),
       averageIntensity |-> IF entries = <<>> THEN 0 - 1
                            ELSE RoundedTenths(SumIntensity(entries), Len(entries)),
       mostCommonMood |-> MostCommonMood(entries),
       moodDistribution |-> MoodDistribution(entries),
       weeklyTrend |-> WeeklyTrend(entries)]

getMoodStats(rows, up, today, days) ==
  LET entries == getMoodEntriesInRange(rows, up, today - days, today)
  IN  IF Len(entries) = 0
        THEN ZeroStats
        ELSE [totalEntries |-> Len(entries),
              averageIntensity |-> RoundedTenths(SumIntensity(entries), Len(entries)),
              mostCommonMood |-> MostCommonMood(entries),
              moodDistribution |-> MoodDistribution(entries),
              weeklyTrend |-> WeeklyTrend(entries)]

(***************************************************************************)
(* StatsSpec: the statistics of every table of at most MaxStatEntries      *)
(* entries dated on the first day of the range or the day before it, read  *)
(* with the tier up or down.                                               *)
(***************************************************************************)
StatMoods == {"happy", "anxious"}

StatIntensities == {1, 2, 5}

StatDates == {Today - DefaultDays, Today - DefaultDays - 1}

StatRows == {MoodRow(m, n, d) : m \in StatMoods, n \in StatIntensities, d \in StatDates}

StatTables == UNION {[1..n -> StatRows] : n \in 0..MaxStatEntries}

ComputeStats(up) ==
  /\ calc.op = "table"
  /\ calc' = [op |-> "stats", rows |-> calc.rows, up |-> up, today |-> Today,
              days |-> DefaultDays,
              stats |-> getMoodStats(calc.rows, up, Today, DefaultDays)]
  /\ UNCHANGED <<isSupabaseConnected, messages, input, isLoading, currentConversationId,
                 aiModel, useAdvancedMode, send, pendingLoads, newConv, conversations,
                 sidebarLoading, del, db, dbUp, nextId, clock>>

StatsInit ==
  /\ ChatInit /\ isSupabaseConnected
  /\ \E rows \in StatTables : calc = [op |-> "table", rows |-> rows]

StatsNext == \E up \in BOOLEAN : ComputeStats(up)

StatsSpec == StatsInit /\ [][StatsNext]_vars

(***************************************************************************)
(* lib/supabase and lib/moodService: the adapter operations as calls that  *)
(* return the table after the call and the value handed to the caller.     *)
(***************************************************************************)
createConversationCall(d, o, id, now) ==
  [db |-> createConversation(d, o = "ok", id, now),
   result |-> TryCatch(o, RowResult(ConvRow(NewConversationTitle, now)), Null)]

getConversationsCall(d, o) ==
  [db |-> d,
   result |-> TryCatch(o, ListResult(getConversations(d, TRUE)), ListResult(<<>>))]

updateConversationTitleCall(d, o, id, title, now) ==
  [db |-> updateConversationTitle(d, o = "ok", id, title, now),
   result |-> TryCatch(o, BoolResult(TRUE), BoolResult(FALSE))]

deleteConversationCall(d, o, id) ==
  [db |-> deleteConversation(d, o = "ok", id),
   result |-> TryCatch(o, BoolResult(TRUE), BoolResult(FALSE))]

getMessagesCall(d, o, cid) ==
  [db |-> d,
   result |-> TryCatch(o, ListResult(getMessages(d, TRUE, cid)), ListResult(<<>>))]

addMoodEntryCall(d, o, moodType, intensity) ==
  [db |-> addMoodEntry(d, o = "ok", moodType, intensity),
   result |-> TryCatch(o, RowResult([mood_type |-> moodType, intensity |-> intensity]), Null)]

\* data && data.length > 0 ? data[0] : null
getTodaysMoodEntryCall(d, o) ==
  [db |-> d,
   result |-> TryCatch(o, IF getTodaysMoodEntry(d, TRUE) = NoMood THEN Null
                          ELSE RowResult(getTodaysMoodEntry(d, TRUE)), Null)]

(***************************************************************************)
(* StoreSpec: the adapter operations and the sidebar's rename against a    *)
(* tier whose every call returns data, returns an error or throws.         *)
(***************************************************************************)
StoreTitles == {TextOkPadded, TextBlank, <<>>}

StoreInit ==
  /\ ChatInit /\ isSupabaseConnected
  /\ calc = NoCalc

\* the state after a call: the table, the clock ticked by a write, the record
\* of the call
Called(op, args, outcomes, call) ==
  /\ db' = call.db
  /\ clock' = IF call.db = db THEN clock ELSE clock + 1
  /\ calc' = [op |-> op, args |-> args, outcomes |-> outcomes, result |-> call.result]

StoreCreateConversation(o) ==
  /\ clock < ClockLimit
  /\ nextId <= MaxConvs
  /\ Called("createConversation", <<nextId>>, <<o>>,
            createConversationCall(db, o, nextId, clock))
  /\ nextId' = IF o = "ok" THEN nextId + 1 ELSE nextId
  /\ UNCHANGED <<isSupabaseConnected, messages, input, isLoading, currentConversationId,
                 aiModel, useAdvancedMode, send, pendingLoads, newConv, conversations,
                 sidebarLoading, del, dbUp>>

StoreGetConversations(o) ==
  /\ Called("getConversations", <<>>, <<o>>, getConversationsCall(db, o))
  /\ UNCHANGED <<isSupabaseConnected, messages, input, isLoading, currentConversationId,
                 aiModel, useAdvancedMode, send, pendingLoads, newConv, conversations,
                 sidebarLoading, del, dbUp, nextId>>

StoreDeleteConversation(id, o) ==
  /\ clock < ClockLimit
  /\ Called("deleteConversation", <<id>>, <<o>>, deleteConversationCall(db, o, id))
  /\ UNCHANGED <<isSupabaseConnected, messages, input, isLoading, currentConversationId,
                 aiModel, useAdvancedMode, send, pendingLoads, newConv, conversations,
                 sidebarLoading, del, dbUp, nextId>>

StoreAddMessage(cid, role, o1, o2) ==
  /\ clock < ClockLimit
  /\ Called("addMessage", <<cid, role>>, <<o1, o2>>,
            addMessageCall(db, o1, o2, cid, role, TextOk, clock))
  /\ UNCHANGED <<isSupabaseConnected, messages, input, isLoading, currentConversationId,
                 aiModel, useAdvancedMode, send, pendingLoads, newConv, conversations,
                 sidebarLoading, del, dbUp, nextId>>

StoreGetMessages(cid, o) ==
  /\ Called("getMessages", <<cid>>, <<o>>, getMessagesCall(db, o, cid))
  /\ UNCHANGED <<isSupabaseConnected, messages, input, isLoading, currentConversationId,
                 aiModel, useAdvancedMode, send, pendingLoads, newConv, conversations,
                 sidebarLoading, del, dbUp, nextId>>

StoreAddMoodEntry(o) ==
  /\ clock < ClockLimit
  /\ \E mood \in SubmittedMoods, intensity \in SubmittedIntensities :
       Called("addMoodEntry", <<mood>>, <<o>>, addMoodEntryCall(db, o, mood, intensity))
  /\ UNCHANGED <<isSupabaseConnected, messages, input, isLoading, currentConversationId,
                 aiModel, useAdvancedMode, send, pendingLoads, newConv, conversations,
                 sidebarLoading, del, dbUp, nextId>>

StoreGetTodaysMoodEntry(o) ==
  /\ Called("getTodaysMoodEntry", <<>>, <<o>>, getTodaysMoodEntryCall(db, o))
  /\ UNCHANGED <<isSupabaseConnected, messages, input, isLoading, currentConversationId,
                 aiModel, useAdvancedMode, send, pendingLoads, newConv, conversations,
                 sidebarLoading, del, dbUp, nextId>>

\* ConversationSidebar.saveEdit of the conversation being edited: no call for
\* a title that is empty after trimming; the list entry follows a success
SaveEdit(editingId, editTitle, o) ==
  /\ clock < ClockLimit
  /\ LET call == IF trim(editTitle) # <<>>
                   THEN updateConversationTitleCall(db, o, editingId, trim(editTitle), clock)
                   ELSE [db |-> db, result |-> [tag |-> "none"]]
     IN  /\ Called("saveEdit", <<editingId, editTitle>>, <<o>>, call)
         /\ conversations' =
              IF call.result = BoolResult(TRUE)
                THEN [i \in 1..Len(conversations) |->
                        IF conversations[i].id = editingId
                          THEN [conversations[i] EXCEPT !.title = trim(editTitle)]
                          ELSE conversations[i]]
                ELSE conversations
  /\ UNCHANGED <<isSupabaseConnected, messages, input, isLoading, currentConversationId,
                 aiModel, useAdvancedMode, send, pendingLoads, newConv, sidebarLoading,
                 del, dbUp, nextId>>

StoreNext ==
  \/ LoadConversationsReturns
  \/ \E o \in Outcomes : StoreCreateConversation(o)
  \/ \E o \in Outcomes : StoreGetConversations(o)
  \/ \E id \in 1..MaxConvs, o \in Outcomes : StoreDeleteConversation(id, o)
  \/ \E cid \in 1..MaxConvs, role \in {"user", "assistant"}, o1 \in Outcomes, o2 \in Outcomes :
       StoreAddMessage(cid, role, o1, o2)
  \/ \E cid \in 1..MaxConvs, o \in Outcomes : StoreGetMessages(cid, o)
  \/ \E o \in Outcomes : StoreAddMoodEntry(o)
  \/ \E o \in Outcomes : StoreGetTodaysMoodEntry(o)
  \/ \E i \in 1..Len(conversations), editTitle \in StoreTitles, o \in Outcomes :
       SaveEdit(conversations[i].id, editTitle, o)

StoreSpec == StoreInit /\ [][StoreNext]_vars

(***************************************************************************)
(* DashSpec: one MoodDashboard, mounted in connected mode.  calc holds the *)
(* component's state (moodEntries, moodStats, loading, timeRange), the     *)
(* pending loadMoodData and the mood_entries table the reads go to.        *)
(***************************************************************************)
EntriesLimit == 50

TimeRanges == {7, 30, 90}

\* moodService.getMoodEntries: the latest rows first, at most limit of them
getMoodEntries(rows, up, limit) ==
  IF up
    THEN SubSeq(Reverse(rows), 1, IF Len(rows) < limit THEN Len(rows) ELSE limit)
    ELSE <<>>

\* Promise.all of the two reads, none of them settled yet
LoadMoodData(days) ==
  [pc |-> "reading", days |-> days,
   entries |-> [done |-> FALSE, value |-> <<>>],
   stats |-> [done |-> FALSE, value |-> ZeroStats]]

NoLoad ==
  [pc |-> "idle", days |-> 0,
   entries |-> [done |-> FALSE, value |-> <<>>],
   stats |-> [done |-> FALSE, value |-> ZeroStats]]

\* the tables the dashboard is mounted on: entries of today, of ten days ago
\* and of forty days ago
DashTables ==
  LET old   == MoodRow("sad", 2, Today - 40)
      mid   == MoodRow("anxious", 1, Today - 10)
      fresh == MoodRow("happy", 5, Today)
  IN  {<<>>, <<old>>, <<old, mid>>, <<old, mid, fresh>>, <<mid, fresh>>, <<fresh>>}

\* useState of lines 11-14 and the effect of lines 16-20 at the mount
DashInit ==
  /\ ChatInit /\ isSupabaseConnected
  /\ \E rows \in DashTables :
       calc = [op |-> "dashboard", rows |-> rows, timeRange |-> DefaultDays,
               loading |-> TRUE, moodEntries |-> <<>>,
               moodStats |-> [null |-> TRUE, value |-> ZeroStats],
               load |-> LoadMoodData(DefaultDays)]

\* lines 81-120: what the component renders
DashView ==
  IF calc.loading THEN "skeleton"
  ELSE IF calc.moodStats.null \/ calc.moodStats.value.totalEntries = 0 THEN "empty"
  ELSE "dashboard"

DashFrame ==
  UNCHANGED <<isSupabaseConnected, messages, input, isLoading, currentConversationId,
              aiModel, useAdvancedMode, send, pendingLoads, newConv, conversations,
              sidebarLoading, del, db, dbUp, nextId, clock>>

\* getMoodEntries(userId, 50) settles
EntriesReturn ==
  /\ calc.load.pc = "reading" /\ ~calc.load.entries.done
  /\ calc' = [calc EXCEPT !.load.entries =
                [done |-> TRUE, value |-> getMoodEntries(calc.rows, dbUp, EntriesLimit)]]
  /\ DashFrame

\* the statistics shown as soon as their read settles, without Promise.all
StatsReturn_ShownAtOnce ==
  /\ calc.load.pc = "reading" /\ ~calc.load.stats.done
  /\ LET stats == getMoodStats(calc.rows, dbUp, Today, calc.load.days)
     IN  calc' = [calc EXCEPT !.load.stats = [done |-> TRUE, value |-> stats],
                              !.moodStats = [null |-> FALSE, value |-> stats],
                              !.loading = FALSE]
  /\ DashFrame

\* getMoodStats(userId, parseInt(timeRange)) settles
StatsReturn ==
  /\ calc.load.pc = "reading" /\ ~calc.load.stats.done
  /\ calc' = [calc EXCEPT !.load.stats =
                [done |-> TRUE, value |-> getMoodStats(calc.rows, dbUp, Today, calc.load.days)]]
  /\ DashFrame

\* lines 29-34: both reads have settled
LoadMoodDataReturns ==
  /\ calc.load.pc = "reading" /\ calc.load.entries.done /\ calc.load.stats.done
  /\ calc' = [calc EXCEPT !.moodEntries = calc.load.entries.value,
                          !.moodStats = [null |-> FALSE, value |-> calc.load.stats.value],
                          !.loading = FALSE,
                          !.load = NoLoad]
  /\ DashFrame

\* the time range buttons of lines 130-144, rendered with the dashboard
\* only; the effect of lines 16-20 starts a load for the new range
SetTimeRange(range) ==
  /\ DashView = "dashboard"
  /\ range # calc.timeRange
  /\ calc' = [calc EXCEPT !.timeRange = range, !.loading = TRUE,
                          !.load = LoadMoodData(range)]
  /\ DashFrame

\* a mood entry of today is stored meanwhile (the mood selector)
DashAddEntry(mood, intensity) ==
  /\ dbUp
  /\ Len(calc.rows) < MaxStatEntries
  /\ calc' = [calc EXCEPT !.rows = Append(@, MoodRow(mood, intensity, Today))]
  /\ DashFrame

DashNext ==
  \/ EntriesReturn
  \/ StatsReturn
  \/ LoadMoodDataReturns
  \/ \E range \in TimeRanges : SetTimeRange(range)
  \/ \E mood \in SubmittedMoods, intensity \in SubmittedIntensities : DashAddEntry(mood, intensity)
  \/ DbGoesDown
  \/ DbComesUp

DashSpec == DashInit /\ [][DashNext]_vars

(***************************************************************************)
(* SelectorSpec: the MoodSelector in connected mode.  calc holds the       *)
(* component's state, the number of handleSubmit calls awaiting the tier   *)
(* and the entry last passed to moodService.addMoodEntry.                  *)
(***************************************************************************)
\* the keys of MOOD_TYPES in their order
MOOD_TYPES ==
  <<"happy", "excited", "grateful", "calm", "content", "sad", "anxious", "stressed",
    "angry", "frustrated", "confused", "tired", "lonely", "hopeful", "motivated",
    "peaceful">>

\* the moods the user clicks on
SelectorMoods == {"happy", "excited", "peaceful"}

\* Object.entries(MOOD_TYPES).filter(([key]) => key !== selectedMood).slice(0, 9)
SecondaryOptions(selectedMood) ==
  LET others == SelectSeq(MOOD_TYPES, LAMBDA key : key # selectedMood)
  IN  Range(SubSeq(others, 1, 9))

NoEntry == [mood_type |-> "", secondary_moods |-> <<>>]

\* resetForm
resetForm(c) ==
  [c EXCEPT !.selectedMood = "", !.secondaryMoods = <<>>, !.showFullForm = FALSE]

\* useState of lines 322-330; selectedMood null is ""
SelectorInit ==
  /\ ChatInit /\ isSupabaseConnected
  /\ calc = [op |-> "selector", isOpen |-> FALSE, selectedMood |-> "",
             secondaryMoods |-> <<>>, showFullForm |-> FALSE, isSubmitting |-> FALSE,
             pending |-> 0, entry |-> NoEntry]

\* the trigger button: setIsOpen(!isOpen)
ToggleOpen ==
  /\ calc' = [calc EXCEPT !.isOpen = ~calc.isOpen]
  /\ DashFrame

\* the close button and Cancel: setIsOpen(false); resetForm()
CloseSelector ==
  /\ calc.isOpen
  /\ calc' = [resetForm(calc) EXCEPT !.isOpen = FALSE]
  /\ DashFrame

\* Quick Check-in / Detailed Entry
SetShowFullForm(full) ==
  /\ calc.isOpen
  /\ calc' = [calc EXCEPT !.showFullForm = full]
  /\ DashFrame

\* handleSubmit up to its first await: the entry passed to addMoodEntry has
\* the secondaryMoods of the render that handled the click
handleSubmit(c, mood) ==
  LET finalMood == IF mood # "" THEN mood ELSE c.selectedMood
  IN  [c EXCEPT !.isSubmitting = TRUE,
                !.pending = c.pending + 1,
                !.entry = [mood_type |-> finalMood, secondary_moods |-> c.secondaryMoods]]

\* handleMoodSelect: a quick selection submits at once
handleMoodSelect(mood) ==
  /\ calc.isOpen
  /\ ~calc.showFullForm => calc.pending < MaxInFlight
  /\ calc' = IF ~calc.showFullForm
               THEN [handleSubmit(calc, mood) EXCEPT !.selectedMood = mood]
               ELSE [calc EXCEPT !.selectedMood = mood]
  /\ DashFrame

\* toggleSecondaryMood, by a button of the detailed form
toggleSecondaryMood(mood) ==
  /\ calc.isOpen /\ calc.showFullForm /\ calc.selectedMood # ""
  /\ mood \in SecondaryOptions(calc.selectedMood)
  /\ calc' = [calc EXCEPT !.secondaryMoods =
                IF mood \in Range(@) THEN SelectSeq(@, LAMBDA m : m # mood)
                ELSE Append(@, mood)]
  /\ DashFrame

\* Save Mood: handleSubmit()
SaveMood ==
  /\ calc.isOpen /\ calc.showFullForm /\ calc.selectedMood # ""
  /\ ~calc.isSubmitting
  /\ calc.pending < MaxInFlight
  /\ calc' = handleSubmit(calc, "")
  /\ DashFrame

\* handleSubmit after its awaits: resetForm, setIsOpen(false), finally
handleSubmitReturns ==
  /\ calc.pending > 0
  /\ calc' = [resetForm(calc) EXCEPT !.isOpen = FALSE, !.isSubmitting = FALSE,
                                     !.pending = calc.pending - 1]
  /\ DashFrame

SelectorNext ==
  \/ ToggleOpen
  \/ CloseSelector
  \/ \E full \in BOOLEAN : SetShowFullForm(full)
  \/ \E mood \in SelectorMoods : handleMoodSelect(mood)
  \/ \E mood \in SelectorMoods : toggleSecondaryMood(mood)
  \/ SaveMood
  \/ handleSubmitReturns

SelectorSpec == SelectorInit /\ [][SelectorNext]_vars

(***************************************************************************)
(* FallbackSpec: the canned reply of sendMessage for every input, with     *)
(* every result of the lookup of today's mood, after a generation call     *)
(* that failed or returned nothing.                                        *)
(***************************************************************************)
FallbackInputs ==
  RouteInputs \cup
    { TextHello,
      <<"w","h","a","t"," ","c","o","n","t","e","n","t">>,
      <<"h","o","w"," ","t","o"," ","c","r","e","a","t","e"," ","a"," ","p","l","o","t">> }

\* lines 167-171 (the call returned only white space) and lines 186-194 (the
\* call threw; today's mood is looked up and its type passed on)
FallbackReply(text, todaysMood, failed) ==
  /\ \E content \in IF failed THEN CatchContents(text, todaysMood)
                              ELSE AssistantContents(TextBlank, text) :
       calc' = [op |-> "fallback", currentInput |-> text, todaysMood |-> todaysMood,
                failed |-> failed, content |-> content]
  /\ UNCHANGED <<isSupabaseConnected, messages, input, isLoading, currentConversationId,
                 aiModel, useAdvancedMode, send, pendingLoads, newConv, conversations,
                 sidebarLoading, del, db, dbUp, nextId, clock>>

FallbackSpec ==
  RouteInit /\ [][\E text \in FallbackInputs \ {TextBlank}, todaysMood \in RouteMoods,
                       failed \in BOOLEAN : FallbackReply(text, todaysMood, failed)]_vars

(***************************************************************************)
(* Properties.                                                             *)
(***************************************************************************)
HasRow(d, cid, role, content) ==
  \E i \in 1..Len(d.messages) :
    /\ d.messages[i].conversation_id = cid
    /\ d.messages[i].role = role
    /\ d.messages[i].content = content

RowsOf(d, cid) == getMessages(d, TRUE, cid)

\* C1: with persistence enabled, every message a turn appends to the in-memory
\* list (the user message, then the generated or fallback assistant message) is
\* inserted as a row of the conversation the turn resolved -- the active one or
\* the one the turn created -- with the same role and content, whenever the
\* tier is reachable and the conversation exists.
C1_TurnMessagesPersisted ==
  [][ /\ ( /\ send.pc = "saveUser" /\ send'.pc # "saveUser"
           /\ dbUp /\ send.conversationId \in DOMAIN db.conversations )
         => HasRow(db', send.conversationId, "user", send.currentInput)
      /\ ( /\ send.pc = "saveAssistant" /\ send'.pc # "saveAssistant"
           /\ dbUp /\ send.conversationId \in DOMAIN db.conversations )
         => HasRow(db', send.conversationId, "assistant", send.assistantContent)
    ]_vars

\* C2: a turn sent in a conversation that the new-conversation action has just
\* created (active, no rows, empty in-memory list) with a text t of at most 50
\* characters leaves, once its user message is persisted, t as the content of
\* the first row that getMessages returns, with role "user", and t as the
\* persisted title; later inserts never change the first row of a conversation.
C2_RoundTrip ==
  [][ /\ ( /\ send.pc = "saveUser" /\ send'.pc = "route" /\ dbUp
           /\ send.cur \in DOMAIN db.conversations
           /\ send.msgs = <<>> /\ RowsOf(db, send.cur) = <<>>
           /\ Len(send.currentInput) <= TitleMax )
         => /\ RowsOf(db', send.cur) # <<>>
            /\ RowsOf(db', send.cur)[1].role = "user"
            /\ RowsOf(db', send.cur)[1].content = send.currentInput
            /\ db'.conversations[send.cur].title = send.currentInput
      /\ \A c \in DOMAIN db.conversations \cap DOMAIN db'.conversations :
           RowsOf(db, c) # <<>> =>
             /\ RowsOf(db', c) # <<>>
             /\ RowsOf(db', c)[1] = RowsOf(db, c)[1]
    ]_vars

\* a created conversation whose turn is over: the user message first, the
\* assistant message after it, the title the text of the user message
C2_Witness ==
  \E c \in DOMAIN db.conversations :
    /\ c = currentConversationId /\ c >= nextId - 1 /\ c > 1
    /\ send.pc = "idle"
    /\ Len(RowsOf(db, c)) = 2
    /\ RowsOf(db, c)[1].role = "user" /\ RowsOf(db, c)[1].content = TextHelp
    /\ RowsOf(db, c)[2].role = "assistant"
    /\ db.conversations[c].title = TextHelp

\* C3: the title derived from a content c is c itself when c has at most 50
\* characters, and otherwise the first 50 characters of c followed by "...";
\* it never has more than 53 characters.
C3_TitleDerivation ==
  calc.op = "title" =>
    /\ Len(calc.content) <= TitleMax => calc.title = calc.content
    /\ Len(calc.content) > TitleMax =>
         /\ Len(calc.title) = TitleMax + 3
         /\ \A i \in 1..TitleMax : calc.title[i] = calc.content[i]
         /\ \A i \in (TitleMax + 1)..(TitleMax + 3) : calc.title[i] = "."
    /\ Len(calc.title) <= TitleMax + 3

\* a content of 80 characters and its title of 53
C3_Witness ==
  /\ calc.op = "title"
  /\ Len(calc.content) = 80
  /\ Len(calc.title) = 53
  /\ calc.title[50] = calc.content[50]

\* C4: the first user message persisted in a conversation sets the title,
\* whatever precedes it -- also after an assistant message such as the
\* mood-context message.
C4_FirstUserMessageSetsTitle ==
  [][ ( /\ send.pc = "saveUser" /\ send'.pc = "route" /\ dbUp
        /\ send.cur \in DOMAIN db.conversations
        /\ \A i \in 1..Len(db.messages) :
             db.messages[i].conversation_id = send.cur => db.messages[i].role # "user" )
      => db'.conversations[send.cur].title = ConversationTitle(send.currentInput)
    ]_vars

\* C5: an accepted turn appends exactly one user message and then exactly one
\* assistant message with a non-empty content -- for a returned text, for a
\* text empty after trimming and for a failed call; no other step of the turn
\* touches the list.
C5_TurnAppendsUserThenAssistant ==
  [][ /\ (send.pc = "idle" /\ send'.pc # "idle")
         => /\ messages' = Append(messages, Msg("user", trim(input)))
            /\ trim(input) # <<>>
      /\ (send.pc = "generate" /\ send'.pc # "generate")
         => /\ Len(messages') = Len(messages) + 1
            /\ SubSeq(messages', 1, Len(messages)) = messages
            /\ messages'[Len(messages')].role = "assistant"
            /\ messages'[Len(messages')].content # <<>>
            /\ send'.pc \in {"saveAssistant", "idle"}
      /\ (send.pc \notin {"idle", "generate"} /\ send' # send)
         => /\ messages' = messages
            /\ send'.pc # "idle" => send.pc # "saveAssistant"
      /\ (send'.pc = "idle" /\ send.pc # "idle")
         => send.pc \in {"generate", "saveAssistant"}
      /\ (send'.pc = "generate" /\ send.pc # "generate") => send.pc = "route"
    ]_vars

\* a finished turn whose generation returned only white space or failed: the
\* list ends with the user message and a canned response
C5_Witness ==
  /\ send.pc = "idle" /\ ~isLoading
  /\ Len(messages) >= 2
  /\ messages[Len(messages) - 1] = Msg("user", TextHelp)
  /\ messages[Len(messages)] = Msg("assistant", helpResponse)

\* C6: after a successful delete the conversation is gone from the sidebar
\* list, and when it was the active one the chat has no conversation selected:
\* currentConversationId is null, the in-memory list is empty, and the delete
\* has created no conversation row.
C6_DeleteLeavesNoConversationSelected ==
  [][ /\ (del.pc = "deleting" /\ del'.pc # "deleting" /\ dbUp)
         => \A i \in 1..Len(conversations') : conversations'[i].id # del.id
      /\ (del.pc = "creating" /\ del'.pc = "idle")
         => /\ currentConversationId' = 0
            /\ messages' = <<>>
            /\ DOMAIN db'.conversations = DOMAIN db.conversations
    ]_vars

Lower(c) == IF c \in DOMAIN UpperToLower THEN UpperToLower[c] ELSE c

\* text contains word, letter case ignored
Mentions(text, word) ==
  \E i \in 0..(Len(text) - Len(word)) :
    \A j \in 1..Len(word) : Lower(text[i + j]) = word[j]

MoodKeyword(text) == Mentions(text, KwFeel) \/ Mentions(text, KwMood)

CreativeKeyword(text) ==
  Mentions(text, KwStory) \/ Mentions(text, KwScript) \/ Mentions(text, KwNarrat)

\* C7: the supportive path is chosen exactly when advanced mode is on, the
\* lookup of today's mood returns an entry and the input contains a mood keyword in any letter
\* case; otherwise the creative path exactly when advanced mode is on and the
\* input contains a story, script or narration keyword; otherwise general chat.
C7_RoutingPrecedence ==
  calc.op = "route" =>
    LET supportive == /\ calc.useAdvancedMode
                      /\ calc.moodToday # NoMood
                      /\ MoodKeyword(calc.currentInput)
        creative   == /\ ~supportive
                      /\ calc.useAdvancedMode
                      /\ CreativeKeyword(calc.currentInput)
    IN  /\ calc.request.path = "supportive" <=> supportive
        /\ calc.request.path = "creative" <=> creative
        /\ calc.request.path = "chat" <=> (~supportive /\ ~creative)
        /\ calc.request.path = "supportive" => calc.request.mood = calc.moodToday

\* an input with a mood keyword and a creative keyword, sent with a mood
\* recorded today, goes to the supportive path
C7_Witness ==
  /\ calc.op = "route"
  /\ calc.moodToday # NoMood
  /\ MoodKeyword(calc.currentInput) /\ CreativeKeyword(calc.currentInput)
  /\ calc.request.path = "supportive"

\* C8: on the creative path the content sub-type is "script" when the input
\* contains the script keyword, else "narration" when it contains the narration
\* keyword, else "story".
C8_CreativeSubType ==
  (calc.op = "route" /\ calc.request.path = "creative") =>
    calc.request.contentType =
      IF Mentions(calc.currentInput, KwScript) THEN "script"
      ELSE IF Mentions(calc.currentInput, KwNarrat) THEN "narration"
      ELSE "story"

\* an input with all three keywords is a script
C8_Witness ==
  /\ calc.op = "route" /\ calc.request.path = "creative"
  /\ Mentions(calc.currentInput, KwScript)
  /\ Mentions(calc.currentInput, KwNarrat)
  /\ Mentions(calc.currentInput, KwStory)
  /\ calc.request.contentType = "script"

\* C9: with advanced mode off every send takes the general chat path with the
\* model CHAT, whatever the input, today's mood and the selected model are;
\* with advanced mode on the general chat path uses the selected model.
C9_ChatModel ==
  calc.op = "route" =>
    /\ ~calc.useAdvancedMode =>
         /\ calc.request.path = "chat"
         /\ calc.request.model = "CHAT"
    /\ (calc.useAdvancedMode /\ calc.request.path = "chat") =>
         calc.request.model = calc.aiModel

\* advanced mode off, another model selected, a mood recorded today and a mood
\* keyword in the input: the turn still asks the model CHAT
C9_Witness ==
  /\ calc.op = "route"
  /\ ~calc.useAdvancedMode
  /\ calc.aiModel # "CHAT"
  /\ calc.moodToday # NoMood
  /\ MoodKeyword(calc.currentInput)
  /\ calc.request.path = "chat" /\ calc.request.model = "CHAT"

DatesOf(entries) == {entries[i].date : i \in 1..Len(entries)}

Latest(dates) == CHOOSE d \in dates : \A e \in dates : e <= d

\* the length of the longest run of consecutive dates that ends at the latest
RunEndingAtLatest(dates) ==
  LET runs == {k \in 1..Cardinality(dates) :
                 \A j \in 0..(k - 1) : Latest(dates) - j \in dates}
  IN  CHOOSE k \in runs : \A l \in runs : l <= k

ExpectedStreak(entries, today) ==
  IF entries = <<>> \/ today - Latest(DatesOf(entries)) > 1
    THEN 0
    ELSE RunEndingAtLatest(DatesOf(entries))

\* C10: for a list with at most one entry per date the streak is 0 when the
\* list is empty or its latest date is more than one day before today, and
\* otherwise the length of the longest run of consecutive dates ending at the
\* latest date.
C10_Streak ==
  ( /\ calc.op = "streak"
    /\ Cardinality(DatesOf(calc.moodEntries)) = Len(calc.moodEntries) )
  => calc.streak = ExpectedStreak(calc.moodEntries, calc.today)

\* entries of today, yesterday and three days ago, in any order: streak 2
C10_Witness ==
  /\ calc.op = "streak"
  /\ Len(calc.moodEntries) = 3
  /\ DatesOf(calc.moodEntries) = {Today, Today - 1, Today - 3}
  /\ calc.streak = 2

\* C11: for any entry list, several entries on one date included, the streak
\* never exceeds the number of distinct dates of the list: it is the number of
\* consecutive calendar days with at least one entry, ending today or yesterday.
C11_StreakCountsDistinctDays ==
  calc.op = "streak" =>
    /\ calc.streak <= Cardinality(DatesOf(calc.moodEntries))
    /\ calc.streak = ExpectedStreak(calc.moodEntries, calc.today)

\* the indices of the rows of the table that lie in the range of the read
InRangeIdx ==
  {i \in 1..Len(calc.rows) :
     /\ calc.rows[i].date >= calc.today - calc.days
     /\ calc.rows[i].date <= calc.today}

RECURSIVE IntensityOver(_, _)
IntensityOver(rows, idx) ==
  IF idx = {} THEN 0
  ELSE LET i == CHOOSE j \in idx : TRUE
       IN  rows[i].intensity + IntensityOver(rows, idx \ {i})

\* C12: for a non-empty list of in-range entries with intensities in 1..5 the
\* averageIntensity of getMoodStats is the arithmetic mean of the intensities
\* rounded to one decimal place, a half rounded up, and lies in [1, 5]
\* (in tenths: the integer nearest to 10 * sum / n, within 10..50).
C12_AverageIntensity ==
  (calc.op = "stats" /\ calc.up /\ InRangeIdx # {}) =>
    LET n   == Cardinality(InRangeIdx)
        sum == IntensityOver(calc.rows, InRangeIdx)
        a   == calc.stats.averageIntensity
    IN  /\ 20 * sum - n < 2 * n * a
        /\ 2 * n * a <= 20 * sum + n
        /\ a >= 10 /\ a <= 50

\* four entries of intensities 1, 1, 1 and 2: the mean 1.25 is rounded to 1.3
C12_Witness ==
  /\ calc.op = "stats" /\ calc.up
  /\ Cardinality(InRangeIdx) = 4
  /\ IntensityOver(calc.rows, InRangeIdx) = 5
  /\ calc.stats.averageIntensity = 13

RECURSIVE CountsOver(_, _)
CountsOver(dist, keys) ==
  IF keys = {} THEN 0
  ELSE LET k == CHOOSE m \in keys : TRUE
       IN  dist[k] + CountsOver(dist, keys \ {k})

\* C13: in every result of getMoodStats the counts of moodDistribution sum to
\* totalEntries, every listed category has a count of at least 1, and each
\* count is the number of in-range entries of that primary mood.
C13_MoodDistribution ==
  calc.op = "stats" =>
    LET dist == calc.stats.moodDistribution
    IN  /\ CountsOver(dist, DOMAIN dist) = calc.stats.totalEntries
        /\ \A m \in DOMAIN dist :
             /\ dist[m] >= 1
             /\ calc.up =>
                  dist[m] = Cardinality({i \in InRangeIdx : calc.rows[i].mood_type = m})
        /\ calc.up => calc.stats.totalEntries = Cardinality(InRangeIdx)

\* a category that has entries only outside the range is not listed
C13_Witness ==
  /\ calc.op = "stats" /\ calc.up
  /\ \E i \in 1..Len(calc.rows) : calc.rows[i].mood_type = "anxious"
  /\ DOMAIN calc.stats.moodDistribution = {"happy"}
  /\ calc.stats.moodDistribution["happy"] = 2
  /\ calc.stats.totalEntries = 2

\* C14: getMoodStats returns the zero-valued result -- no entries, average 0,
\* no most common mood, empty distribution, empty trend -- when the range
\* holds no entries and when the read of the entries fails.
C14_ZeroStats ==
  (calc.op = "stats" /\ (~calc.up \/ InRangeIdx = {})) =>
    /\ calc.stats.totalEntries = 0
    /\ calc.stats.averageIntensity = 0
    /\ calc.stats.mostCommonMood = ""
    /\ DOMAIN calc.stats.moodDistribution = {}
    /\ calc.stats.weeklyTrend = <<>>

\* a failed read of a range that holds entries
C14_Witness ==
  /\ calc.op = "stats" /\ ~calc.up
  /\ InRangeIdx # {}
  /\ calc.stats.totalEntries = 0
  /\ calc.stats.averageIntensity = 0

(***************************************************************************)
(* LocalSpec: the chat in local mode (isSupabaseConnected false).  The     *)
(* sidebar is not rendered.  The tier is given a mood entry of today and   *)
(* may answer or not, so that a read of it would show in the turn.         *)
(***************************************************************************)
TextFeel == <<"I"," ","f","e","e","l"," ","o","v","e","r","w","h","e","l","m","e","d">>

LocalInputs == {TextHelp, TextFeel}

LocalDb == [InitialDb EXCEPT !.mood_entries = <<[mood_type |-> "anxious", intensity |-> 5]>>]

LocalInit ==
  /\ isSupabaseConnected = FALSE
  /\ messages = <<>>
  /\ input = <<>>
  /\ isLoading = FALSE
  /\ currentConversationId = 0
  /\ aiModel = "CHAT"
  /\ useAdvancedMode = FALSE
  /\ send = IdleSend
  /\ pendingLoads = {}
  /\ newConv = FALSE
  /\ conversations = <<>>
  /\ sidebarLoading = FALSE
  /\ del = IdleDel
  /\ db = LocalDb
  /\ dbUp \in BOOLEAN
  /\ nextId = 2
  /\ clock = InitialClock
  /\ calc = NoCalc

LocalNext ==
  \/ \E text \in LocalInputs : SetInput(text)
  \/ ToggleAdvancedMode
  \/ SendMessage
  \/ SendRoute
  \/ \E text \in GenTexts : SendGenerateReturns(text)
  \/ SendGenerateThrows
  \/ \E mood \in SubmittedMoods, intensity \in SubmittedIntensities : SubmitMood(mood, intensity)

LocalSpec == LocalInit /\ [][LocalNext]_vars

\* C15: in local mode no step writes to the persistence tier, waits for it or
\* uses a value read from it -- no conversation is created or selected, no
\* message or mood entry is saved, today's mood is never looked up -- and
\* every accepted send still ends with a non-empty assistant message appended
\* to the in-memory list and the loading flag cleared.
C15_LocalModeIssuesNoOperation ==
  [][ ~isSupabaseConnected =>
        /\ db' = db /\ clock' = clock /\ nextId' = nextId
        /\ send'.pc \in {"idle", "route", "generate"}
        /\ ~newConv' /\ pendingLoads' = {} /\ ~sidebarLoading' /\ del'.pc = "idle"
        /\ currentConversationId' = 0
        /\ send'.request.path \in {"none", "chat", "creative"}
        /\ send'.request.mood = NoMood
        /\ (send.pc = "generate" /\ send'.pc # "generate") =>
             /\ send'.pc = "idle" /\ ~isLoading'
             /\ Len(messages') = Len(messages) + 1
             /\ SubSeq(messages', 1, Len(messages)) = messages
             /\ messages'[Len(messages')].role = "assistant"
             /\ messages'[Len(messages')].content # <<>>
             /\ ~MoodKeyword(send.currentInput) =>
                  messages'[Len(messages')].content \notin Range(moodResponses)
    ]_vars

\* a finished turn in local mode and advanced mode whose input has a mood
\* keyword, with a mood entry of today in a reachable tier
C15_Witness ==
  /\ ~isSupabaseConnected /\ dbUp /\ useAdvancedMode
  /\ getTodaysMoodEntry(db, dbUp) # NoMood
  /\ send.pc = "idle" /\ ~isLoading
  /\ Len(messages) = 2
  /\ messages[1] = Msg("user", TextFeel)
  /\ messages[2] = Msg("assistant", TextOk)


(***************************************************************************)
(* The store adapter under failing calls (StoreSpec).                      *)
(***************************************************************************)
StoreOps == {"createConversation", "getConversations", "deleteConversation",
             "addMessage", "getMessages", "addMoodEntry", "getTodaysMoodEntry"}

\* the last step called an adapter operation (saveEdit calls
\* updateConversationTitle unless the trimmed title is empty)
AdapterCalled ==
  \/ calc.op \in StoreOps
  \/ calc.op = "saveEdit" /\ calc.result.tag # "none"

SomeCallFailed == \E i \in DOMAIN calc.outcomes : calc.outcomes[i] # "ok"

\* null, the empty list or false
Degraded(r) ==
  \/ r.tag = "null"
  \/ r.tag = "list" /\ r.value = <<>>
  \/ r.tag = "boolean" /\ r.value = FALSE

\* C16 as stated: whenever a call of an adapter operation to the tier fails,
\* by an error result or by an exception, the operation returns null, the
\* empty list or false and raises nothing.
C16_EveryFailureDegrades ==
  (AdapterCalled /\ SomeCallFailed) =>
     /\ calc.result.tag # "raised"
     /\ Degraded(calc.result)

\* What holds of C16: no adapter operation raises; it returns null, the empty
\* list or false when its first call fails or when addMessage's update of
\* updated_at throws.  (An error result of that update is not looked at.)
C16_FailureDegradesButIgnoredUpdate ==
  AdapterCalled =>
     /\ calc.result.tag # "raised"
     /\ (\/ calc.outcomes[1] # "ok"
         \/ calc.op = "addMessage" /\ calc.outcomes[2] = "throws")
          => Degraded(calc.result)

\* an exception of addMessage's second call came back as null
C16_ThrowingUpdateDegrades ==
  /\ calc.op = "addMessage"
  /\ calc.outcomes = <<"ok", "throws">>
  /\ calc.result.tag = "null"


(***************************************************************************)
(* Rename (StoreSpec).                                                     *)
(***************************************************************************)
\* the step is a saveEdit
SaveEditStep ==
  /\ calc'.op = "saveEdit"
  /\ \/ calc.op # "saveEdit"
     \/ calc'.args # calc.args
     \/ calc'.outcomes # calc.outcomes
     \/ clock' # clock

\* the rename reached the row: the title was not blank, the update succeeded
\* and the conversation still exists
Renamed ==
  /\ calc'.result.tag = "boolean" /\ calc'.result.value
  /\ calc'.args[1] \in DOMAIN db.conversations

\* C17 as stated: a rename with a title that is empty after trimming issues no
\* update, and a successful rename changes the title alone: created_at,
\* updated_at, the owner, the other conversations and all messages stay.
C17_RenameChangesOnlyTitle ==
  [][SaveEditStep =>
       LET id == calc'.args[1]
           title == trim(calc'.args[2])
       IN  /\ title = <<>> => calc'.result.tag = "none" /\ db' = db
           /\ Renamed => db' = [db EXCEPT !.conversations[id].title = title]
           /\ ~Renamed => db' = db]_vars

\* C17 amended: a rename with a title that is empty after trimming issues no
\* update; a successful rename sets the title to the trimmed text and the
\* trigger sets updated_at to the time of the update; created_at, the owner,
\* the other conversations, all messages and all mood entries stay.
C17_RenameChangesTitleAndUpdatedAt ==
  [][SaveEditStep =>
       LET id == calc'.args[1]
           title == trim(calc'.args[2])
       IN  /\ title = <<>> => calc'.result.tag = "none" /\ db' = db
           /\ Renamed =>
                /\ title # <<>>
                /\ DOMAIN db'.conversations = DOMAIN db.conversations
                /\ db'.conversations[id].title = title
                /\ db'.conversations[id].updated_at = clock
                /\ db'.conversations[id].updated_at >= db.conversations[id].updated_at
                /\ db'.conversations[id].created_at = db.conversations[id].created_at
                /\ db'.conversations[id].user_id = db.conversations[id].user_id
                /\ \A c \in DOMAIN db.conversations \ {id} :
                      db'.conversations[c] = db.conversations[c]
                /\ db'.messages = db.messages
                /\ db'.mood_entries = db.mood_entries
           /\ ~Renamed => db' = db]_vars

\* a padded title was saved trimmed on a conversation created earlier than
\* the rename
C17_Witness ==
  /\ calc.op = "saveEdit"
  /\ calc.args[2] = TextOkPadded
  /\ calc.result.tag = "boolean" /\ calc.result.value
  /\ calc.args[1] \in DOMAIN db.conversations
  /\ db.conversations[calc.args[1]].title = TextOk
  /\ db.conversations[calc.args[1]].created_at < db.conversations[calc.args[1]].updated_at


(***************************************************************************)
(* The bump of updated_at by addMessage (StoreSpec).                       *)
(***************************************************************************)
\* the step is an addMessage that inserted its row
AddMessageInserted ==
  /\ calc'.op = "addMessage"
  /\ Len(db'.messages) = Len(db.messages) + 1

\* C20: every addMessage whose insert succeeds leaves the conversation's
\* updated_at at or after the timestamp of the inserted message, and the
\* conversation is the first of the next getConversations.
C20_InsertBumpsUpdatedAt ==
  [][AddMessageInserted =>
       LET cid == calc'.args[1]
           row == db'.messages[Len(db'.messages)]
       IN  /\ row.conversation_id = cid
           /\ db'.conversations[cid].updated_at >= row.timestamp
           /\ getConversations(db', TRUE)[1].id = cid]_vars

\* What holds of C20: the bump happens when the update that follows the
\* insert succeeds as well.
C20_InsertAndUpdateBumpUpdatedAt ==
  [][(AddMessageInserted /\ calc'.outcomes = <<"ok", "ok">>) =>
       LET cid == calc'.args[1]
           row == db'.messages[Len(db'.messages)]
       IN  /\ row.conversation_id = cid
           /\ db'.conversations[cid].updated_at = row.timestamp
           /\ getConversations(db', TRUE)[1].id = cid]_vars


(***************************************************************************)
(* The send state machine (LiveSpec).                                      *)
(***************************************************************************)
\* the positions of sendMessage in the order of the code
PcRank(pc) ==
  CASE pc = "idle" -> 0
    [] pc = "create" -> 1
    [] pc = "saveUser" -> 2
    [] pc = "route" -> 3
    [] pc = "generate" -> 4
    [] pc = "saveAssistant" -> 5

\* the model's clock has run out: no further write can be modelled
ClockExhausted == clock = ClockLimit

\* the handler waits for a call to the tier that the exhausted clock of the
\* model keeps from returning
SendAtBound == ClockExhausted /\ send.pc \in {"create", "saveUser", "saveAssistant"}

\* Idle -> Sending: an accepted send sets isLoading
SendAccepted == send.pc = "idle" /\ send'.pc # "idle" => ~isLoading /\ isLoading'

\* while Sending the handler only moves forward, so it passes the generation
\* request once: the request is issued by the step from route to generate and
\* by no other step, and no step returns to route or generate
SendOneRequest ==
  /\ (send.pc # "idle" /\ send'.pc # "idle") => PcRank(send'.pc) >= PcRank(send.pc)
  /\ (send'.pc = "generate" /\ send.pc # "generate") =>
        send.pc = "route" /\ send.request = NoRequest /\ send'.request # NoRequest
  /\ (send.pc = "generate" /\ send'.pc = "generate") => send'.request = send.request

\* Sending -> Idle: isLoading is reset by the step that ends the handler and
\* by no other
SendFinished == (isLoading /\ ~isLoading') <=> (send.pc # "idle" /\ send'.pc = "idle")

\* C18: Idle -> Sending -> Idle.  An accepted send sets isLoading, issues at
\* most one generation request and eventually resets isLoading, whatever the
\* generation call and the persistence calls do.  (The model has a last
\* tick; a handler waiting for a write at that tick is left out.)
C18_SendStateMachine ==
  /\ [](isLoading <=> send.pc # "idle")
  /\ [][SendAccepted /\ SendOneRequest /\ SendFinished]_vars
  /\ (isLoading ~> (~isLoading \/ SendAtBound))

\* a turn on an active conversation has ended with the tier unreachable and
\* nothing saved
C18_Witness ==
  /\ ~isLoading
  /\ isSupabaseConnected /\ ~dbUp
  /\ currentConversationId # 0
  /\ Len(messages) >= 2
  /\ messages[Len(messages)].role = "assistant"
  /\ \A i \in 1..Len(db.messages) : db.messages[i].conversation_id # currentConversationId
  /\ ~ClockExhausted


(***************************************************************************)
(* A pending send and a change of the active conversation (TurnSpec).      *)
(***************************************************************************)
\* the step in which the pending send appends its assistant message
SendAppends == send.pc = "generate" /\ send'.pc # "generate"

\* the active conversation is no longer the one of the pending send
ActiveConversationChanged == currentConversationId # send.conversationId

\* C19: once a later user action has changed the active conversation, the
\* pending send does not append its assistant message to the in-memory list,
\* which is by then the list of the newly active conversation.
C19_PendingSendLeavesNewConversationAlone ==
  [][(SendAppends /\ ActiveConversationChanged) => messages' = messages]_vars

\* What holds of C19: the append is made to whatever list is current.
C19_PendingSendAppendsToCurrentList ==
  [][SendAppends =>
       /\ Len(messages') = Len(messages) + 1
       /\ SubSeq(messages', 1, Len(messages)) = messages
       /\ messages'[Len(messages')].role = "assistant"]_vars


(***************************************************************************)
(* The most common mood (StatsSpec).                                       *)
(***************************************************************************)
\* the in-range rows of mood m; the read returns the rows latest first, so
\* the row of m scanned first is the one of the largest index
RowsOfMood(m) == {i \in InRangeIdx : calc.rows[i].mood_type = m}

ScannedFirst(m) == CHOOSE i \in RowsOfMood(m) : \A j \in RowsOfMood(m) : j <= i

\* C21: mostCommonMood is a category of maximal count; among the categories
\* of that count it is the one met first when the entries are scanned in the
\* order the read returned them; it is "" exactly when there are no entries.
C21_MostCommonMood ==
  calc.op = "stats" =>
    LET m == calc.stats.mostCommonMood
    IN  IF ~calc.up \/ InRangeIdx = {}
          THEN m = ""
          ELSE /\ RowsOfMood(m) # {}
               /\ \A i \in InRangeIdx :
                    LET x == calc.rows[i].mood_type
                    IN  /\ Cardinality(RowsOfMood(x)) <= Cardinality(RowsOfMood(m))
                        /\ (x # m /\ Cardinality(RowsOfMood(x)) = Cardinality(RowsOfMood(m)))
                              => ScannedFirst(x) < ScannedFirst(m)

\* two categories with two entries each; the one whose entry was returned
\* first is reported, although the other was stored first
C21_Witness ==
  /\ calc.op = "stats" /\ calc.up
  /\ Cardinality(InRangeIdx) = 4
  /\ Cardinality(RowsOfMood("happy")) = 2
  /\ Cardinality(RowsOfMood("anxious")) = 2
  /\ calc.rows[1].mood_type = "happy"
  /\ calc.rows[4].mood_type = "anxious"
  /\ calc.stats.mostCommonMood = "anxious"


(***************************************************************************)
(* The canned response of a failing send (FallbackSpec).                   *)
(***************************************************************************)
\* the topic bucket of an input by its keywords alone, in the order
\* mood/feelings, story, narration/voice, content-creation, help, general
InputBucket(text) ==
  IF Mentions(text, KwFeel) \/ Mentions(text, KwMood) \/ Mentions(text, KwEmotion)
    THEN Range(moodResponses)
  ELSE IF Mentions(text, KwStory) \/ Mentions(text, KwNarrative) \/ Mentions(text, KwPlot)
    THEN Range(storyResponses)
  ELSE IF Mentions(text, KwVoice) \/ Mentions(text, KwNarration) \/ Mentions(text, KwScript)
    THEN Range(voiceResponses)
  ELSE IF Mentions(text, KwContent) \/ Mentions(text, KwCreate) \/ Mentions(text, KwWrite)
    THEN Range(contentResponses)
  ELSE IF Mentions(text, KwHelp) \/ Mentions(text, KwHow) \/ Mentions(text, KwWhat)
    THEN {helpResponse}
  ELSE Range(generalResponses)

\* C22 as stated: the canned response is taken from the bucket that the
\* keywords of the user's input determine, whatever else the state holds
\* (such as a mood entry for today).
C22_FallbackBucketByInput ==
  calc.op = "fallback" => calc.content \in InputBucket(calc.currentInput)

\* C22 amended: after a generation call that threw, with a mood entry for
\* today on record, the canned response is taken from the mood/feelings
\* bucket whatever the input; in every other case from the bucket that the
\* keywords of the input determine.
C22_FallbackBucketByMoodThenInput ==
  calc.op = "fallback" =>
    IF calc.failed /\ calc.todaysMood # NoMood
      THEN calc.content \in Range(moodResponses)
      ELSE calc.content \in InputBucket(calc.currentInput)

\* a request for help failed on a day with a mood entry and was answered
\* from the mood/feelings bucket
C22_Witness ==
  /\ calc.op = "fallback"
  /\ calc.failed
  /\ calc.todaysMood # NoMood
  /\ calc.currentInput = TextHelp
  /\ calc.content \in Range(moodResponses)
  /\ calc.content \notin InputBucket(TextHelp)


(***************************************************************************)
(* The dashboard's load (DashSpec).                                        *)
(***************************************************************************)
\* the step ends the loading state
LoadingEnds == calc.loading /\ ~calc'.loading

\* C23: both reads of a load are pending together and settle in either
\* order; the dashboard is in its loading state exactly while a load is
\* pending, leaves it only when both reads have settled, and takes the entry
\* list and the statistics in that one step, both from that load.
C23_LoadsTogether ==
  /\ [](calc.op = "dashboard" => (calc.loading <=> calc.load.pc = "reading"))
  /\ [][calc.op = "dashboard" =>
          /\ LoadingEnds =>
               /\ calc.load.entries.done /\ calc.load.stats.done
               /\ calc'.moodEntries = calc.load.entries.value
               /\ ~calc'.moodStats.null
               /\ calc'.moodStats.value = calc.load.stats.value
          /\ (calc'.moodEntries # calc.moodEntries \/ calc'.moodStats # calc.moodStats)
               => LoadingEnds]_vars

\* the statistics of a load have arrived before its entries, which hold
\* rows, and the dashboard is still loading with the previous list
C23_Witness ==
  /\ calc.op = "dashboard"
  /\ calc.loading
  /\ calc.load.stats.done /\ ~calc.load.entries.done
  /\ calc.load.stats.value.totalEntries > 0
  /\ calc.load.days = 7
  /\ calc.moodStats.value # calc.load.stats.value


(***************************************************************************)
(* The time range and the pending load (DashSpec).                         *)
(***************************************************************************)
\* What holds of C29: the time range changes only while no load is pending
\* (its buttons are rendered with the loaded dashboard only), so a pending
\* load is always the load of the selected range and the statistics shown
\* when it ends were read for that range.
C29_RangeChangesOnlyWhenLoaded ==
  /\ [](calc.op = "dashboard" =>
          (calc.load.pc = "reading" => calc.load.days = calc.timeRange))
  /\ [][calc.op = "dashboard" =>
          /\ calc'.timeRange # calc.timeRange => calc.load.pc = "idle" /\ ~calc.loading
          /\ LoadingEnds => calc.load.days = calc.timeRange /\ calc'.timeRange = calc.timeRange]_vars

\* the range was changed to 7 days and its load has ended
C29_RangeChangedAndLoaded ==
  /\ calc.op = "dashboard"
  /\ calc.timeRange = 7
  /\ ~calc.loading
  /\ ~calc.moodStats.null
  /\ calc.moodStats.value.totalEntries > 0


(***************************************************************************)
(* The secondary moods of a submitted entry (SelectorSpec).                *)
(***************************************************************************)
\* C24: every entry passed to addMoodEntry by the mood selector has
\* secondary moods that do not contain its primary mood.
C24_SecondaryExcludesPrimary ==
  (calc.op = "selector" /\ calc.entry # NoEntry) =>
    \A i \in 1..Len(calc.entry.secondary_moods) :
      calc.entry.secondary_moods[i] # calc.entry.mood_type

\* What holds of C24: a secondary mood is never added while it is the
\* selected primary mood.
C24_ToggleExcludesSelected ==
  [][calc.op = "selector" =>
       \A m \in Range(calc'.secondaryMoods) \ Range(calc.secondaryMoods) :
         m # calc.selectedMood]_vars


(***************************************************************************)
(* The guard of sendMessage (TurnSpec).                                    *)
(***************************************************************************)
\* a call of sendMessage got past its guard
TurnStarts == send.pc = "idle" /\ send'.pc # "idle"

UserMessageAppended ==
  /\ Len(messages') = Len(messages) + 1
  /\ messages'[Len(messages')].role = "user"

\* C25: a turn starts only with isLoading false and an input that is not
\* empty after trimming, and only a starting turn appends a user message,
\* clears the input, raises isLoading or replaces the record of the pending
\* turn: a call while loading or with a blank input changes none of them,
\* so at most one turn is in flight.
C25_OneTurnInFlight ==
  [][/\ TurnStarts => ~isLoading /\ trim(input) # <<>>
     /\ UserMessageAppended => TurnStarts
     /\ (input # <<>> /\ input' = <<>>) => TurnStarts
     /\ (~isLoading /\ isLoading') => TurnStarts
     /\ (send.pc # "idle" /\ send'.pc # "idle") =>
           /\ send'.currentInput = send.currentInput
           /\ send'.msgs = send.msgs
           /\ send'.cur = send.cur]_vars

\* a turn awaits its generation request and the input box holds a new text:
\* Enter calls sendMessage while isLoading
C25_Witness ==
  /\ isLoading
  /\ send.pc = "generate"
  /\ input = TextHelp
  /\ Len(messages) = 1


(***************************************************************************)
(* Selections whose reads overlap (SidebarSpec).                           *)
(***************************************************************************)
LastLoadReturns == pendingLoads # {} /\ pendingLoads' = {}

\* C26: when the last pending loadConversation completes with the tier
\* reachable, the in-memory list is the persisted list of the conversation
\* currentConversationId names, in whatever order the reads completed.
C26_LoadedListIsCurrentConversation ==
  [][(LastLoadReturns /\ dbUp) =>
        messages' = FormatMessages(getMessages(db', TRUE, currentConversationId'))]_vars

\* What holds of C26: a completing read shows the list of the conversation
\* it was called for, whichever conversation is selected by then
C26_LoadedListIsOfItsOwnCall ==
  [][\A cid \in pendingLoads :
        (cid \notin pendingLoads' /\ dbUp) =>
           messages' = FormatMessages(getMessages(db', TRUE, cid))]_vars


(***************************************************************************)
(* The active conversation after its delete (SidebarSpec).                 *)
(***************************************************************************)
\* the delete handler finishes after deleting the conversation that was the
\* active one when the user confirmed
ActiveDeleteHandled ==
  /\ del.pc # "idle"
  /\ del'.pc = "idle"
  /\ del.cur = del.id
  /\ del.id \notin DOMAIN db'.conversations

\* C27: when a successful delete of the active conversation has been
\* handled, currentConversationId is not the deleted id, also when the
\* createConversation that follows the delete fails.
C27_DeletedConversationNotCurrent ==
  [][ActiveDeleteHandled => currentConversationId' # del.id]_vars

\* What holds of C27: the deleted id is replaced whenever the replacement
\* conversation could be created
C27_ReplacedWhenCreateSucceeds ==
  [][(ActiveDeleteHandled /\ dbUp) =>
        /\ currentConversationId' # del.id
        /\ currentConversationId' \in DOMAIN db'.conversations]_vars


(***************************************************************************)
(* The title of a conversation that has messages (SessionSpec).            *)
(***************************************************************************)
HasPersistedMessages(d, cid) ==
  \E i \in 1..Len(d.messages) : d.messages[i].conversation_id = cid

TitleChanged(cid) ==
  /\ cid \in DOMAIN db.conversations
  /\ cid \in DOMAIN db'.conversations
  /\ db'.conversations[cid].title # db.conversations[cid].title

\* C28: a send changes the title of a conversation only when the
\* conversation has no persisted message; the title of a conversation with
\* messages is never overwritten by a send, also when the conversation was
\* selected and the read of its messages failed and returned the empty list.
C28_TitleOnlyOfEmptyConversation ==
  [][\A cid \in 1..MaxConvs :
        TitleChanged(cid) => ~HasPersistedMessages(db, cid)]_vars

\* What holds of C28: the title changes only in the step that saves a user
\* message sent from an empty in-memory list
C28_TitleOnlyFromEmptyList ==
  [][\A cid \in 1..MaxConvs :
        TitleChanged(cid) =>
           /\ send.pc \in {"saveUser", "create"}
           /\ send.msgs = <<>>
           /\ db'.conversations[cid].title = ConversationTitle(send.currentInput)]_vars


(***************************************************************************)
(* The sidebar list and the rows created in the session (SidebarSpec).     *)
(***************************************************************************)
ListedIds(convs) == {convs[i].id : i \in 1..Len(convs)}

NothingPending ==
  /\ send.pc = "idle"
  /\ ~newConv
  /\ del.pc = "idle"
  /\ ~sidebarLoading

\* C30: once the action that created it has completed, every conversation
\* row created in the session -- by the new-conversation button, by the first
\* send or as the replacement after a delete -- is in the sidebar list.
C30_CreatedRowsListed ==
  (isSupabaseConnected /\ NothingPending) =>
     \A cid \in DOMAIN db.conversations \ DOMAIN InitialDb.conversations :
        cid \in ListedIds(conversations)

\* What holds of C30: after its one load the sidebar list gains no entry
C30_ListNeverGrows ==
  [][~sidebarLoading => ListedIds(conversations') \subseteq ListedIds(conversations)]_vars

====
